---------------------------- MODULE Spec2Model ----------------------------
(***************************************************************************)
(* Worm Buster: the detection engine of the Shai-Hulud 2 scanner.          *)
(*   lib/loader.js    loadInfectedPackages, addPackage                     *)
(*   lib/analyzer.js  extractVersion, checkPackageJson, checkNodeModules   *)
(*   lib/scanner.js   findPackageFiles, findMaliciousArtifacts             *)
(*   lib/config.js    MALICIOUS_ARTIFACTS, SUSPICIOUS_WORKFLOW_PATTERN, …  *)
(*   index.js         scan                                                 *)
(* JavaScript strings are TLA+ strings; a character is a string of length  *)
(* one, and the string methods the code calls are written out below.       *)
(***************************************************************************)
EXTENDS Integers, Sequences, FiniteSets, TLC

VARIABLES
    wormFile,       \* loader: the text of worm.md
    packages,       \* loader: the Map loadInfectedPackages returns
    loaderPc,       \* loader: "start" | "done"
    entries,        \* formats: the logical (name, version) list written to worm.md
    tableDb,        \* formats: database loaded from the Markdown-table text
    tsvDb,          \* formats: database loaded from the tab-separated text
    formatsPc,      \* formats: the set of texts loaded so far
    declaredSpec,   \* version: the declared version specifier
    resolved,       \* version: extractVersion(declaredSpec)
    again,          \* version: extractVersion(resolved)
    versionPc,      \* version: number of extractVersion calls made
    manifest,       \* analyzer: the text of the package.json being checked
    infectedPackages, \* analyzer: the IOC database passed in
    verbose,        \* analyzer: options.verbose
    findings,       \* analyzer: what checkPackageJson returned
    analyzerPc,     \* analyzer: "start" | "done" | "threw"
    tree,           \* scanner: the directory being scanned, with all below it
    rootPath,       \* scanner: the path given as `dir`
    artifactWalk,   \* scanner: results and onError calls of findMaliciousArtifacts
    packageWalk,    \* scanner: results and onError calls of findPackageFiles
    scannerPc,      \* scanner: the set of walks done
    wormMd,         \* scan: worm.md beside index.js: [exists, readable, content]
    directories,    \* scan: the targets getDirectoriesToScan returns
    scanOptions,    \* scan: [verbose, checkProcesses, checkCredentials]
    host,           \* scan: [processes, credentialFiles, homeDir]
    buckets,        \* scan: the findings object of scan
    exitCode,       \* scan: the code the process exited with, -1 before it has
    scanPc,         \* scan: "start" | "returned" | "exited" | "threw"
    lockfile,       \* lock: the text of the package-lock.json being checked
    lockReturned,   \* lock: what checkPackageLock returned
    lockPc,         \* lock: "start" | "done" | "threw"
    walk,           \* walk: [kind, stack, results, errors, visited] of a walk in progress
    walkPc,         \* walk: "start" | "running" | "done"
    database,       \* shared: the Map loadInfectedPackages returned, used by every call
    sharedTarget,   \* shared: the project the calls look at
    sharedVerbose,  \* shared: options.verbose
    carried,        \* shared: the objects held by the findings returned so far
    stats,          \* shared: what getPackageStats returned
    sharedDone      \* shared: the functions called so far

loaderVars  == <<wormFile, packages, loaderPc>>
formatsVars == <<entries, tableDb, tsvDb, formatsPc>>
versionVars == <<declaredSpec, resolved, again, versionPc>>
analyzerVars == <<manifest, infectedPackages, verbose, findings, analyzerPc>>
scannerVars == <<tree, rootPath, artifactWalk, packageWalk, scannerPc>>
scanVars == <<wormMd, directories, scanOptions, host, buckets, exitCode, scanPc>>
lockVars == <<lockfile, lockReturned, lockPc>>
walkVars == <<walk, walkPc>>
sharedVars == <<database, sharedTarget, sharedVerbose, carried, stats, sharedDone>>
vars == <<loaderVars, formatsVars, versionVars, analyzerVars, scannerVars, scanVars, lockVars,
          walkVars, sharedVars>>

(***************************************************************************)
(* Generic helpers                                                         *)
(***************************************************************************)
Min(S) == CHOOSE x \in S : \A y \in S : x <= y
Max(S) == CHOOSE x \in S : \A y \in S : x >= y
Range(seq) == {seq[i] : i \in 1..Len(seq)}

\* the element of a one-element set; The({F(x) : x \in {e}}) is F(e) with e
\* evaluated once
The(S) == CHOOSE x \in S : TRUE

RECURSIVE SeqsUpTo(_, _)
\* every sequence over S of length 0..n
SeqsUpTo(S, n) ==
    IF n = 0 THEN {<<>>}
    ELSE LET shorter == SeqsUpTo(S, n - 1)
         IN  shorter \cup {Append(q, x) : q \in {r \in shorter : Len(r) = n - 1}, x \in S}

(***************************************************************************)
(* JavaScript String.prototype methods used by the code                    *)
(***************************************************************************)
CharAt(s, i) == SubSeq(s, i, i)

\* s.startsWith(p)
StartsWith(s, p) == Len(p) <= Len(s) /\ SubSeq(s, 1, Len(p)) = p

\* s.endsWith(p)
EndsWith(s, p) == Len(p) <= Len(s) /\ SubSeq(s, Len(s) - Len(p) + 1, Len(s)) = p

\* s.includes(p)
Includes(s, p) == \E i \in 1..(Len(s) - Len(p) + 1) : SubSeq(s, i, i + Len(p) - 1) = p

\* the characters String.prototype.trim removes that occur in the inputs
WhiteSpace == {" ", "\t", "\n", "\r"}

\* s.trim()
Trim(s) ==
    LET keep == {i \in 1..Len(s) : CharAt(s, i) \notin WhiteSpace}
    IN  IF keep = {} THEN "" ELSE SubSeq(s, Min(keep), Max(keep))

\* s.split(sep) for a one-character separator: the pieces between the
\* occurrences of sep, so "" gives <<"">> and "|a|" gives <<"", "a", "">>
Split(s, sep) ==
    LET seps == {i \in 1..Len(s) : CharAt(s, i) = sep}
        n == Cardinality(seps)
        pos(j) == IF j = 0 THEN 0
                  ELSE IF j = n + 1 THEN Len(s) + 1
                  ELSE CHOOSE i \in seps : Cardinality({m \in seps : m < i}) = j - 1
    IN  [j \in 1..(n + 1) |-> SubSeq(s, pos(j - 1) + 1, pos(j) - 1)]

RECURSIVE Join(_, _)
\* parts.join(sep)
Join(parts, sep) ==
    IF Len(parts) = 0 THEN ""
    ELSE IF Len(parts) = 1 THEN parts[1]
    ELSE parts[1] \o sep \o Join(Tail(parts), sep)

(***************************************************************************)
(* lib/loader.js                                                           *)
(* Map<string, Set<string>> is a function from names to the sequence of    *)
(* the Set's elements in insertion order, without duplicates.              *)
(***************************************************************************)
EmptyDb == <<>>

\* Set.prototype.has
SetHas(set, v) == \E i \in 1..Len(set) : set[i] = v

\* Set.prototype.add
SetAdd(set, v) == IF SetHas(set, v) THEN set ELSE Append(set, v)

\* Map.prototype.has
DbHas(db, name) == name \in DOMAIN db

addPackage(db, name, version) ==
    IF DbHas(db, name)
    THEN [db EXCEPT ![name] = SetAdd(@, version)]
    ELSE db @@ (name :> <<version>>)

\* line.split('|').map(p => p.trim()).filter(p => p)
TableParts(line) ==
    LET cells == Split(line, "|")
        trimmed == [i \in 1..Len(cells) |-> Trim(cells[i])]
    IN  SelectSeq(trimmed, LAMBDA p : p # "")

\* mutant: the line is split on tabs as it stands
TabPartsUntrimmed(line) == Split(line, "\t")

\* line.trim().split('\t')
TabParts(line) == Split(Trim(line), "\t")

\* one iteration of the for loop: <<packages, inTable>> after `line`
LoadLine(db, inTable, line) ==
    IF Includes(line, "| Package") \/ Includes(line, "|---")
    THEN <<db, TRUE>>
    ELSE IF inTable /\ StartsWith(line, "|")
    THEN LET parts == TableParts(line)
         IN  IF Len(parts) >= 2 /\ ~Includes(parts[1], "Package")
             THEN <<addPackage(db, parts[1], parts[2]), inTable>>
             ELSE <<db, inTable>>
    ELSE IF Includes(line, "\t")
    THEN LET parts == TabParts(line)
         IN  IF Len(parts) >= 2 /\ Trim(parts[1]) # "" /\ Trim(parts[2]) # ""
             THEN <<addPackage(db, Trim(parts[1]), Trim(parts[2])), inTable>>
             ELSE <<db, inTable>>
    ELSE <<db, inTable>>

RECURSIVE LoadLines(_, _, _, _)
LoadLines(lines, i, db, inTable) ==
    IF i > Len(lines) THEN db
    ELSE The({LoadLines(lines, i + 1, st[1], st[2]) : st \in {LoadLine(db, inTable, lines[i])}})

loadInfectedPackages(content) == LoadLines(Split(content, "\n"), 1, EmptyDb, FALSE)

RECURSIVE SizesOf(_, _)
\* totalVersions += versions.size over the Sets of the names given
SizesOf(db, names) ==
    IF names = {} THEN 0
    ELSE LET name == CHOOSE n \in names : TRUE
         IN  Len(db[name]) + SizesOf(db, names \ {name})

getPackageStats(db) ==
    [uniquePackages |-> Cardinality(DOMAIN db), totalVersions |-> SizesOf(db, DOMAIN db)]

(***************************************************************************)
(* lib/analyzer.js: extractVersion                                         *)
(***************************************************************************)
\* the character class of /^[\^~>=<]+/
Operators == {"^", "~", ">", "=", "<"}

\* mutant: the pattern without its +, dropping one operator character only
StripOneOperator(s) ==
    IF s # "" /\ CharAt(s, 1) \in Operators THEN SubSeq(s, 2, Len(s)) ELSE s

\* versionSpec.replace(/^[\^~>=<]+/, ''): drops the whole leading run
StripOperators(s) ==
    LET rest == {i \in 1..Len(s) : CharAt(s, i) \notin Operators}
    IN  IF rest = {} THEN "" ELSE SubSeq(s, Min(rest), Len(s))

extractVersion(spec) == Split(StripOperators(spec), " ")[1]

(***************************************************************************)
(* JSON documents, as JSON.parse returns them.  A value is a record tagged *)
(* by its JavaScript type; an object keeps its own properties in order.    *)
(* A file's text either parses to a value or makes JSON.parse throw.       *)
(***************************************************************************)
JStr(s) == [t |-> "string", s |-> s]
JNum(n) == [t |-> "number", n |-> n]
JNull == [t |-> "null"]
JUndefined == [t |-> "undefined"]
JObj(es) == [t |-> "object", es |-> es]

FileText(json) == [parses |-> TRUE, json |-> json]
Unparsable == [parses |-> FALSE, json |-> JNull]

\* the truthiness test of `if (!x)` and `x || {}`
Truthy(v) ==
    CASE v.t = "string" -> v.s # ""
      [] v.t = "number" -> v.n # 0
      [] v.t = "object" -> TRUE
      [] OTHER -> FALSE

\* v[key] throws a TypeError on null and undefined
GetThrows(v) == v.t \in {"null", "undefined"}

\* v[key] for a property name that is not an index
Get(v, key) ==
    IF v.t = "object" /\ \E i \in 1..Len(v.es) : v.es[i][1] = key
    THEN v.es[CHOOSE i \in 1..Len(v.es) : v.es[i][1] = key][2]
    ELSE JUndefined

\* Object.entries(v) of a truthy value: a string's entries are its characters
ObjectEntries(v) ==
    CASE v.t = "object" -> v.es
      [] v.t = "string" -> [i \in 1..Len(v.s) |-> <<ToString(i - 1), JStr(CharAt(v.s, i))>>]
      [] OTHER -> <<>>

(***************************************************************************)
(* lib/config.js                                                           *)
(***************************************************************************)
DEPENDENCY_TYPES ==
    <<"dependencies", "devDependencies", "peerDependencies", "optionalDependencies">>

SUSPICIOUS_SCRIPTS == <<"preinstall", "postinstall", "prepare">>

SUSPICIOUS_SCRIPT_PATTERNS == <<"bun", "setup_", "curl", "wget", "eval">>

(***************************************************************************)
(* lib/analyzer.js: checkPackageJson                                       *)
(* A call returns [threw, findings]: threw is TRUE when an exception       *)
(* leaves the function, and then no findings are returned.                 *)
(***************************************************************************)
Returned(fs) == [threw |-> FALSE, findings |-> fs]
Threw == [threw |-> TRUE, findings |-> <<>>]

\* mutant: the parse failure is reported as a warning
ParseErrorAsWarning(filePath) ==
    [type |-> "PARSE_ERROR", severity |-> "WARNING", file |-> filePath,
     message |-> "Failed to parse"]

ParseError(filePath) ==
    [type |-> "PARSE_ERROR", severity |-> "INFO", file |-> filePath,
     message |-> "Failed to parse"]

KnownTargetNote(infectedVersions) ==
    "This package was compromised in the Shai-Hulud 2 attack but you have a different version. Do NOT upgrade to: "
        \o Join(infectedVersions, ", ")

\* mutant: the declared specifier is compared without being reduced
DependencyFindingUnreduced(filePath, db, depType, pkg, versionSpec) ==
    IF SetHas(db[pkg], versionSpec)
    THEN [type |-> "INFECTED_PACKAGE", severity |-> "CRITICAL", package |-> pkg,
          version |-> versionSpec, declaredVersion |-> versionSpec,
          depType |-> depType, file |-> filePath]
    ELSE [type |-> "KNOWN_TARGET", severity |-> "WARNING", package |-> pkg,
          version |-> versionSpec, declaredVersion |-> versionSpec,
          infectedVersions |-> db[pkg], depType |-> depType, file |-> filePath,
          note |-> KnownTargetNote(db[pkg])]

\* mutant: the KNOWN_TARGET finding lists only the first infected version
DependencyFindingFirstOnly(filePath, db, depType, pkg, versionSpec) ==
    LET reduced == extractVersion(versionSpec)
    IN  IF SetHas(db[pkg], reduced)
        THEN [type |-> "INFECTED_PACKAGE", severity |-> "CRITICAL", package |-> pkg,
              version |-> reduced, declaredVersion |-> versionSpec,
              depType |-> depType, file |-> filePath]
        ELSE [type |-> "KNOWN_TARGET", severity |-> "WARNING", package |-> pkg,
              version |-> reduced, declaredVersion |-> versionSpec,
              infectedVersions |-> <<db[pkg][1]>>, depType |-> depType,
              file |-> filePath, note |-> KnownTargetNote(db[pkg])]

\* the finding pushed for one declaration whose name is in the database and
\* whose specifier is the string versionSpec
DependencyFinding(filePath, db, depType, pkg, versionSpec) ==
    LET reduced == extractVersion(versionSpec)
        infectedVersions == db[pkg]
    IN  IF SetHas(infectedVersions, reduced)
        THEN [type |-> "INFECTED_PACKAGE", severity |-> "CRITICAL", package |-> pkg,
              version |-> reduced, declaredVersion |-> versionSpec,
              depType |-> depType, file |-> filePath]
        ELSE [type |-> "KNOWN_TARGET", severity |-> "WARNING", package |-> pkg,
              version |-> reduced, declaredVersion |-> versionSpec,
              infectedVersions |-> infectedVersions, depType |-> depType,
              file |-> filePath, note |-> KnownTargetNote(infectedVersions)]

RECURSIVE CheckEntries(_, _, _, _, _, _)
\* the inner loop over Object.entries(content[depType]), from entry i on;
\* extractVersion calls versionSpec.replace, a TypeError unless a string
CheckEntries(filePath, db, depType, es, i, acc) ==
    IF i > Len(es) THEN Returned(acc)
    ELSE LET pkg == es[i][1]
             versionSpec == es[i][2]
         IN  IF ~DbHas(db, pkg)
             THEN CheckEntries(filePath, db, depType, es, i + 1, acc)
             ELSE IF versionSpec.t # "string" THEN Threw
             ELSE CheckEntries(filePath, db, depType, es, i + 1,
                      Append(acc, DependencyFinding(filePath, db, depType, pkg, versionSpec.s)))

RECURSIVE CheckDependencyTypes(_, _, _, _, _)
\* the outer loop over DEPENDENCY_TYPES, from type k on
CheckDependencyTypes(filePath, db, content, k, acc) ==
    IF k > Len(DEPENDENCY_TYPES) THEN Returned(acc)
    ELSE LET depType == DEPENDENCY_TYPES[k]
             section == Get(content, depType)
         IN  IF ~Truthy(section)
             THEN CheckDependencyTypes(filePath, db, content, k + 1, acc)
             ELSE LET r == CheckEntries(filePath, db, depType, ObjectEntries(section), 1, acc)
                  IN  IF r.threw THEN Threw
                      ELSE CheckDependencyTypes(filePath, db, content, k + 1, r.findings)

\* mutant: every pattern has to be in the script, not some pattern
IsSuspiciousEvery(scriptContent) ==
    \A j \in 1..Len(SUSPICIOUS_SCRIPT_PATTERNS) :
        Includes(scriptContent, SUSPICIOUS_SCRIPT_PATTERNS[j])

\* SUSPICIOUS_SCRIPT_PATTERNS.some(pattern => scriptContent.includes(pattern))
IsSuspicious(scriptContent) ==
    \E j \in 1..Len(SUSPICIOUS_SCRIPT_PATTERNS) :
        Includes(scriptContent, SUSPICIOUS_SCRIPT_PATTERNS[j])

RECURSIVE CheckScripts(_, _, _, _)
\* the loop over SUSPICIOUS_SCRIPTS, from name k on; scriptContent.includes
\* is a TypeError when the truthy script value is not a string
CheckScripts(filePath, scripts, k, acc) ==
    IF k > Len(SUSPICIOUS_SCRIPTS) THEN Returned(acc)
    ELSE LET script == SUSPICIOUS_SCRIPTS[k]
             scriptContent == Get(scripts, script)
         IN  IF ~Truthy(scriptContent) THEN CheckScripts(filePath, scripts, k + 1, acc)
             ELSE IF scriptContent.t # "string" THEN Threw
             ELSE IF IsSuspicious(scriptContent.s)
             THEN CheckScripts(filePath, scripts, k + 1,
                      Append(acc, [type |-> "SUSPICIOUS_SCRIPT", severity |-> "WARNING",
                                   script |-> script, content |-> scriptContent.s,
                                   file |-> filePath]))
             ELSE CheckScripts(filePath, scripts, k + 1, acc)

checkPackageJson(filePath, text, db, options) ==
    IF ~text.parses
    THEN Returned(IF options.verbose THEN <<ParseError(filePath)>> ELSE <<>>)
    ELSE LET content == text.json
         IN  IF GetThrows(content) THEN Threw
             ELSE LET deps == CheckDependencyTypes(filePath, db, content, 1, <<>>)
                      scripts == Get(content, "scripts")
                  IN  IF deps.threw THEN Threw
                      ELSE IF ~Truthy(scripts) THEN deps
                      ELSE CheckScripts(filePath, scripts, 1, deps.findings)


(***************************************************************************)
(* The filesystem.  A directory entry is a record: a directory holds the   *)
(* entries readdirSync returns, in that order, unless reading it fails;    *)
(* a file holds its text.                                                  *)
(***************************************************************************)
Dir(name, readable, es) ==
    [name |-> name, type |-> "dir", readable |-> readable, entries |-> es]
File(name, text) == [name |-> name, type |-> "file", text |-> text]

\* a symbolic link to the directory at the path `target`
Link(name, target) == [name |-> name, type |-> "symlink", target |-> target]

\* mutant: a directory is told by following links, as fs.statSync would
IsDirectoryFollowingLinks(entry) == entry.type \in {"dir", "symlink"}

\* Dirent.isDirectory()
IsDirectory(entry) == entry.type = "dir"

\* path.join(currentDir, name) for a name without separators
PathJoin(currentDir, name) ==
    IF EndsWith(currentDir, "/") THEN currentDir \o name ELSE currentDir \o "/" \o name

(***************************************************************************)
(* lib/config.js: artifact rules                                           *)
(***************************************************************************)
MALICIOUS_ARTIFACTS ==
    << ".github/workflows/discussion.yaml",
       ".github/workflows/discussion.yml",
       "cloud.json",
       "contents.json",
       "environment.json",
       "truffleSecrets.json",
       "actionsSecrets.json",
       "setup_bun.js",
       "bun_environment.js" >>

Digits == {"0", "1", "2", "3", "4", "5", "6", "7", "8", "9"}

\* SUSPICIOUS_WORKFLOW_PATTERN.test(name) for /formatter_\d+\.ya?ml$/:
\* somewhere in the name "formatter_", then one or more digits, then
\* ".yml" or ".yaml" up to the end of the name
SuspiciousWorkflowPattern(name) ==
    \E i \in 1..Len(name) : \E j \in (i + 10)..Len(name) :
        /\ SubSeq(name, i, i + 9) = "formatter_"
        /\ \A k \in (i + 10)..j : CharAt(name, k) \in Digits
        /\ SubSeq(name, j + 1, Len(name)) \in {".yml", ".yaml"}

(***************************************************************************)
(* lib/scanner.js: findMaliciousArtifacts                                  *)
(* A walk returns [results, errors]: errors lists the directories whose    *)
(* readdirSync threw, in the order onError would be called.                *)
(***************************************************************************)
EmptyWalk == [results |-> <<>>, errors |-> <<>>]

\* mutant: a basename rule matched by suffix, like a path rule
ArtifactMatchesBySuffix(artifact, name, fullPath) == EndsWith(fullPath, artifact)

\* mutant: a path rule matched on the file name alone
ArtifactMatchesByName(artifact, name, fullPath) == name = artifact

\* the `matches` of one rule for one file
ArtifactMatches(artifact, name, fullPath) ==
    IF Includes(artifact, "/") THEN EndsWith(fullPath, artifact) ELSE name = artifact

\* the pushes for one non-directory entry: one per matching rule, in rule
\* order, then the workflow-pattern push
FileArtifacts(name, fullPath) ==
    LET hits == SelectSeq(MALICIOUS_ARTIFACTS,
                          LAMBDA artifact : ArtifactMatches(artifact, name, fullPath))
    IN  [i \in 1..Len(hits) |-> [artifact |-> hits[i], path |-> fullPath]]
        \o (IF Includes(fullPath, ".github/workflows/") /\ SuspiciousWorkflowPattern(name)
            THEN <<[artifact |-> "suspicious_workflow", path |-> fullPath]>>
            ELSE <<>>)

\* mutant: node_modules is walked like any other directory
SkipsArtifactEntryNever(name) == FALSE

\* mutant: the artifact walk skips hidden entries as findPackageFiles does
SkipsArtifactEntryHidden(name) ==
    name = "node_modules" \/ (StartsWith(name, ".") /\ name # ".github")

\* `if (entry.name === 'node_modules') continue`
SkipsArtifactEntry(name) == name = "node_modules"

RECURSIVE ArtifactEntries(_, _, _, _)
\* scan(currentDir) of findMaliciousArtifacts on the directory `dir`
ArtifactScan(dir, currentDir, acc) ==
    IF ~dir.readable
    THEN [acc EXCEPT !.errors = Append(@, currentDir)]
    ELSE ArtifactEntries(dir.entries, 1, currentDir, acc)

\* its for loop, from entry i on
ArtifactEntries(es, i, currentDir, acc) ==
    IF i > Len(es) THEN acc
    ELSE LET entry == es[i]
             fullPath == PathJoin(currentDir, entry.name)
         IN  IF SkipsArtifactEntry(entry.name)
             THEN ArtifactEntries(es, i + 1, currentDir, acc)
             ELSE IF IsDirectory(entry)
             THEN ArtifactEntries(es, i + 1, currentDir, ArtifactScan(entry, fullPath, acc))
             ELSE ArtifactEntries(es, i + 1, currentDir,
                      [acc EXCEPT !.results = @ \o FileArtifacts(entry.name, fullPath)])

findMaliciousArtifacts(root, dir) == ArtifactScan(root, dir, EmptyWalk)

(***************************************************************************)
(* lib/scanner.js: findPackageFiles                                        *)
(***************************************************************************)
\* mutant: nothing is found at any path
ExistsSyncNever(entry) == FALSE

\* fs.existsSync of an entry readdirSync has just listed
ExistsSync(entry) == entry.type \in {"dir", "file", "symlink"}

RECURSIVE PackageEntries(_, _, _, _)
\* scan(currentDir) of findPackageFiles on the directory `dir`
PackageScan(dir, currentDir, acc) ==
    IF ~dir.readable
    THEN [acc EXCEPT !.errors = Append(@, currentDir)]
    ELSE PackageEntries(dir.entries, 1, currentDir, acc)

\* its for loop, from entry i on
PackageEntries(es, i, currentDir, acc) ==
    IF i > Len(es) THEN acc
    ELSE LET entry == es[i]
             fullPath == PathJoin(currentDir, entry.name)
             push(ty) == [acc EXCEPT !.results = Append(@, [type |-> ty, path |-> fullPath])]
         IN  IF entry.name = "node_modules"
             THEN PackageEntries(es, i + 1, currentDir,
                      IF ExistsSync(entry) THEN push("node_modules") ELSE acc)
             ELSE IF StartsWith(entry.name, ".") /\ entry.name # ".github"
             THEN PackageEntries(es, i + 1, currentDir, acc)
             ELSE IF IsDirectory(entry)
             THEN PackageEntries(es, i + 1, currentDir, PackageScan(entry, fullPath, acc))
             ELSE IF entry.name = "package.json"
             THEN PackageEntries(es, i + 1, currentDir, push("package.json"))
             ELSE IF entry.name = "package-lock.json"
             THEN PackageEntries(es, i + 1, currentDir, push("package-lock.json"))
             ELSE PackageEntries(es, i + 1, currentDir, acc)

findPackageFiles(root, dir) == PackageScan(root, dir, EmptyWalk)

(***************************************************************************)
(* lib/analyzer.js: checkPackageLock, checkDependenciesV1                  *)
(***************************************************************************)
\* s.indexOf(p) + 1: the first position of p in s, 0 when there is none
IndexOf(s, p) ==
    LET at == {i \in 1..(Len(s) - Len(p) + 1) : SubSeq(s, i, i + Len(p) - 1) = p}
    IN  IF at = {} THEN 0 ELSE Min(at)

\* s.replace(p, '') for a string p: only the first occurrence is removed
RemoveFirst(s, p) ==
    LET i == IndexOf(s, p)
    IN  IF i = 0 THEN s ELSE SubSeq(s, 1, i - 1) \o SubSeq(s, i + Len(p), Len(s))

RECURSIVE SplitOn(_, _)
\* s.split(sep) for a separator of any length
SplitOn(s, sep) ==
    LET i == IndexOf(s, sep)
    IN  IF i = 0 THEN <<s>>
        ELSE <<SubSeq(s, 1, i - 1)>> \o SplitOn(SubSeq(s, i + Len(sep), Len(s)), sep)

\* mutant: the name is what follows the last slash of the key
LockedNameAfterSlash(pkgPath) ==
    LET parts == Split(pkgPath, "/")
    IN  parts[Len(parts)]

\* the package name taken from a key of `packages`
LockedName(pkgPath) ==
    LET parts == SplitOn(RemoveFirst(pkgPath, "node_modules/"), "node_modules/")
    IN  parts[Len(parts)]

\* `if (infectedPackages.has(name) && info.version) { ... }`
LockedPackage(filePath, db, name, info) ==
    IF ~DbHas(db, name) THEN Returned(<<>>)
    ELSE IF GetThrows(info) THEN Threw
    ELSE LET version == Get(info, "version")
         IN  Returned(IF Truthy(version) /\ version.t = "string" /\ SetHas(db[name], version.s)
                      THEN <<[type |-> "INFECTED_LOCKED_PACKAGE", severity |-> "CRITICAL",
                              package |-> name, version |-> version.s, file |-> filePath,
                              installed |-> TRUE]>>
                      ELSE <<>>)

RECURSIVE DependenciesV1(_, _, _, _, _)
\* the for loop of checkDependenciesV1 from entry i on; acc is `findings`
DependenciesV1(filePath, db, es, i, acc) ==
    IF i > Len(es) THEN Returned(acc)
    ELSE LET info == es[i][2]
             own == LockedPackage(filePath, db, es[i][1], info)
         IN  IF own.threw \/ GetThrows(info) THEN Threw
             ELSE LET nested == Get(info, "dependencies")
                      below == IF Truthy(nested)
                               THEN DependenciesV1(filePath, db, ObjectEntries(nested), 1,
                                                   acc \o own.findings)
                               ELSE Returned(acc \o own.findings)
                  IN  IF below.threw THEN Threw
                      ELSE DependenciesV1(filePath, db, es, i + 1, below.findings)

checkDependenciesV1(deps, filePath, db, acc) ==
    DependenciesV1(filePath, db, ObjectEntries(deps), 1, acc)

RECURSIVE LockPackages(_, _, _, _, _)
\* the for loop over Object.entries(packages) from entry i on
LockPackages(filePath, db, es, i, acc) ==
    IF i > Len(es) THEN Returned(acc)
    ELSE IF es[i][1] = "" THEN LockPackages(filePath, db, es, i + 1, acc)
    ELSE LET own == LockedPackage(filePath, db, LockedName(es[i][1]), es[i][2])
         IN  IF own.threw THEN Threw
             ELSE LockPackages(filePath, db, es, i + 1, acc \o own.findings)

checkPackageLock(filePath, text, db, options) ==
    IF ~text.parses
    THEN Returned(IF options.verbose THEN <<ParseError(filePath)>> ELSE <<>>)
    ELSE LET content == text.json
         IN  IF GetThrows(content) THEN Threw
             ELSE LET packagesV2 == Get(content, "packages")
                      v2 == IF Truthy(packagesV2)
                            THEN LockPackages(filePath, db, ObjectEntries(packagesV2), 1, <<>>)
                            ELSE Returned(<<>>)
                      deps == Get(content, "dependencies")
                  IN  IF v2.threw THEN Threw
                      ELSE IF Truthy(deps)
                      THEN checkDependenciesV1(deps, filePath, db, v2.findings)
                      ELSE v2

(***************************************************************************)
(* lib/analyzer.js: checkNodeModules, checkInstalledPackage                *)
(***************************************************************************)
\* what a path names when nothing is there
Missing(name) == [name |-> name, type |-> "none"]

\* the entry of the directory `dir` called `name`
ChildNamed(dir, name) ==
    IF \E i \in 1..Len(dir.entries) : dir.entries[i].name = name
    THEN dir.entries[CHOOSE i \in 1..Len(dir.entries) : dir.entries[i].name = name]
    ELSE Missing(name)

\* mutant: the parse failure of a package.json is reported whatever the options
checkInstalledPackageLoud(pkgName, pkgPath, pkgDir, db, options) ==
    LET pkgJsonPath == PathJoin(pkgPath, "package.json")
        entry == ChildNamed(pkgDir, "package.json")
    IN  IF ~DbHas(db, pkgName) THEN Returned(<<>>)
        ELSE IF ~ExistsSync(entry) THEN Returned(<<>>)
        ELSE IF IsDirectory(entry) \/ ~entry.text.parses
        THEN Returned(<<[type |-> "PARSE_ERROR", severity |-> "INFO",
                         path |-> pkgJsonPath, message |-> "Failed to parse"]>>)
        ELSE LET pkgJson == entry.text.json
             IN  IF GetThrows(pkgJson) THEN Threw
                 ELSE LET version == Get(pkgJson, "version")
                      IN  Returned(IF version.t = "string" /\ SetHas(db[pkgName], version.s)
                                   THEN <<[type |-> "INSTALLED_INFECTED_PACKAGE",
                                           severity |-> "CRITICAL", package |-> pkgName,
                                           version |-> version.s, path |-> pkgPath]>>
                                   ELSE <<>>)

\* the findings checkInstalledPackage pushes for the package directory pkgDir
checkInstalledPackage(pkgName, pkgPath, pkgDir, db, options) ==
    LET pkgJsonPath == PathJoin(pkgPath, "package.json")
        entry == ChildNamed(pkgDir, "package.json")
    IN  IF ~DbHas(db, pkgName) THEN Returned(<<>>)
        ELSE IF ~ExistsSync(entry) THEN Returned(<<>>)
        ELSE IF IsDirectory(entry) \/ ~entry.text.parses
        THEN Returned(IF options.verbose
                      THEN <<[type |-> "PARSE_ERROR", severity |-> "INFO",
                              path |-> pkgJsonPath, message |-> "Failed to parse"]>>
                      ELSE <<>>)
        ELSE LET pkgJson == entry.text.json
             IN  IF GetThrows(pkgJson) THEN Threw
                 ELSE LET version == Get(pkgJson, "version")
                      IN  Returned(IF version.t = "string" /\ SetHas(db[pkgName], version.s)
                                   THEN <<[type |-> "INSTALLED_INFECTED_PACKAGE",
                                           severity |-> "CRITICAL", package |-> pkgName,
                                           version |-> version.s, path |-> pkgPath]>>
                                   ELSE <<>>)

\* mutant: a scoped package looked up without its scope
ScopedNameBare(scope, name) == name

\* `${entry.name}/${scopedEntry.name}`
ScopedName(scope, name) == scope \o "/" \o name

RECURSIVE ScopedEntries(_, _, _, _, _, _, _)
\* the for loop over scopedEntries from entry i on
ScopedEntries(es, i, scope, scopePath, db, options, acc) ==
    IF i > Len(es) THEN Returned(acc)
    ELSE IF ~IsDirectory(es[i]) THEN ScopedEntries(es, i + 1, scope, scopePath, db, options, acc)
    ELSE LET r == checkInstalledPackage(ScopedName(scope, es[i].name),
                                        PathJoin(scopePath, es[i].name), es[i], db, options)
         IN  IF r.threw THEN Threw
             ELSE ScopedEntries(es, i + 1, scope, scopePath, db, options, acc \o r.findings)

RECURSIVE NodeModulesEntries(_, _, _, _, _, _)
\* the for loop over entries from entry i on
NodeModulesEntries(es, i, nodeModulesPath, db, options, acc) ==
    IF i > Len(es) THEN Returned(acc)
    ELSE IF ~IsDirectory(es[i])
    THEN NodeModulesEntries(es, i + 1, nodeModulesPath, db, options, acc)
    ELSE LET entry == es[i]
             fullPath == PathJoin(nodeModulesPath, entry.name)
             r == IF StartsWith(entry.name, "@")
                  THEN (IF entry.readable
                        THEN ScopedEntries(entry.entries, 1, entry.name, fullPath, db,
                                           options, <<>>)
                        ELSE Returned(<<>>))
                  ELSE checkInstalledPackage(entry.name, fullPath, entry, db, options)
         IN  IF r.threw THEN Threw
             ELSE NodeModulesEntries(es, i + 1, nodeModulesPath, db, options,
                                     acc \o r.findings)

\* nodeModules is what nodeModulesPath names
checkNodeModules(nodeModulesPath, nodeModules, db, options) ==
    IF ~IsDirectory(nodeModules) \/ ~nodeModules.readable
    THEN Returned(IF options.verbose
                  THEN <<[type |-> "READ_ERROR", severity |-> "INFO",
                          path |-> nodeModulesPath, message |-> "Failed to read"]>>
                  ELSE <<>>)
    ELSE NodeModulesEntries(nodeModules.entries, 1, nodeModulesPath, db, options, <<>>)

(***************************************************************************)
(* lib/system.js: the optional system checks.  What `ps` prints and which  *)
(* files the home directory holds belong to the host: host.processes is    *)
(* the list checkRunningProcesses returns, host.credentialFiles the set of *)
(* credential files that exist.                                            *)
(***************************************************************************)
CREDENTIAL_FILES ==
    << ".aws/credentials", ".azure/credentials", ".config/gcloud/credentials.db",
       ".npmrc", ".netrc", ".git-credentials" >>

checkRunningProcesses(h) == h.processes

checkCredentialFiles(h) ==
    LET found == SelectSeq(CREDENTIAL_FILES, LAMBDA file : file \in h.credentialFiles)
    IN  [i \in 1..Len(found) |->
            [type |-> "CREDENTIAL_FILE_EXISTS", severity |-> "INFO",
             file |-> PathJoin(h.homeDir, found[i]),
             note |-> "If malware was active, rotate these credentials"]]

(***************************************************************************)
(* index.js: scan and the CLI entry point.  A target is [dir, root]: the   *)
(* path given on the command line and the directory it names (or nothing). *)
(* What scan prints and the report files it writes are not kept.           *)
(***************************************************************************)
EmptyBuckets == [critical |-> <<>>, warning |-> <<>>, info |-> <<>>]

\* mutant: only the findings of the first call are kept
ConcatFirstOnly(seqs) == IF seqs = <<>> THEN <<>> ELSE Head(seqs)

RECURSIVE Concat(_)
Concat(seqs) == IF seqs = <<>> THEN <<>> ELSE Head(seqs) \o Concat(Tail(seqs))

RECURSIVE Descend(_, _, _)
\* follow the names from position k on, starting at node
Descend(node, names, k) ==
    IF k > Len(names) THEN node
    ELSE IF ~IsDirectory(node) THEN Missing(names[k])
    ELSE Descend(ChildNamed(node, names[k]), names, k + 1)

\* what the file system holds at `path`, a path at or below the target
NodeAt(target, path) ==
    IF path = target.dir THEN target.root
    ELSE LET skip == IF EndsWith(target.dir, "/") THEN Len(target.dir) ELSE Len(target.dir) + 1
         IN  Descend(target.root, Split(SubSeq(path, skip + 1, Len(path)), "/"), 1)

\* the findings of one target from the candidates findPackageFiles returned,
\* in the order scan pushes them, or the exception that ends scan
ScanCandidates(target, packageFiles, db, options) ==
    LET OfType(ty) == SelectSeq(packageFiles, LAMBDA f : f.type = ty)
        packageJsonFiles == OfType("package.json")
        lockFiles == OfType("package-lock.json")
        nodeModulesDirs == OfType("node_modules")
        pkgFindings == [i \in 1..Len(packageJsonFiles) |->
            checkPackageJson(packageJsonFiles[i].path,
                             NodeAt(target, packageJsonFiles[i].path).text, db, options)]
        lockFindings == [i \in 1..Len(lockFiles) |->
            checkPackageLock(lockFiles[i].path,
                             NodeAt(target, lockFiles[i].path).text, db, options)]
        nmFindings == [i \in 1..Len(nodeModulesDirs) |->
            checkNodeModules(nodeModulesDirs[i].path,
                             NodeAt(target, nodeModulesDirs[i].path), db, options)]
        artifacts == findMaliciousArtifacts(target.root, target.dir).results
        artifactFindings == [i \in 1..Len(artifacts) |->
            [type |-> "MALICIOUS_ARTIFACT", severity |-> "CRITICAL",
             artifact |-> artifacts[i].artifact, path |-> artifacts[i].path]]
    IN  The({ IF \E i \in 1..Len(calls) : calls[i].threw THEN Threw
              ELSE Returned(Concat([i \in 1..Len(calls) |-> calls[i].findings])
                            \o artifactFindings)
            : calls \in {pkgFindings \o lockFindings \o nmFindings} })

\* the body of `for (const dir of directories)` for one target
ScanDirectory(target, db, options) ==
    IF ~ExistsSync(target.root) THEN Returned(<<>>)
    ELSE The({ScanCandidates(target, packageFiles, db, options) :
                 packageFiles \in {findPackageFiles(target.root, target.dir).results}})

\* mutant: a finding that is not CRITICAL goes to info
BucketOfTwoWay(finding) == IF finding.severity = "CRITICAL" THEN "critical" ELSE "info"

\* the bucket the if / else-if chain on finding.severity pushes to
BucketOf(finding) ==
    IF finding.severity = "CRITICAL" THEN "critical"
    ELSE IF finding.severity = "WARNING" THEN "warning"
    ELSE "info"

\* mutant: the buckets are started afresh for every directory
AggregateLastPass(passes, options, h) ==
    LET all == IF passes = <<>> THEN <<>> ELSE passes[Len(passes)].findings
        processFindings == IF options.checkProcesses THEN checkRunningProcesses(h) ELSE <<>>
        credFindings == IF options.checkCredentials THEN checkCredentialFiles(h) ELSE <<>>
    IN  IF \E i \in 1..Len(passes) : passes[i].threw
        THEN [outcome |-> "threw", findings |-> EmptyBuckets]
        ELSE [outcome |-> "returned",
              findings |->
                [critical |-> SelectSeq(all, LAMBDA f : BucketOf(f) = "critical")
                                  \o processFindings,
                 warning |-> SelectSeq(all, LAMBDA f : BucketOf(f) = "warning"),
                 info |-> SelectSeq(all, LAMBDA f : BucketOf(f) = "info") \o credFindings]]

\* the buckets scan returns from what the passes over the directories
\* pushed, or the exception of the first pass that threw
Aggregate(passes, options, h) ==
    LET all == Concat([i \in 1..Len(passes) |-> passes[i].findings])
        processFindings == IF options.checkProcesses THEN checkRunningProcesses(h) ELSE <<>>
        credFindings == IF options.checkCredentials THEN checkCredentialFiles(h) ELSE <<>>
    IN  IF \E i \in 1..Len(passes) : passes[i].threw
        THEN [outcome |-> "threw", findings |-> EmptyBuckets]
        ELSE The({ [outcome |-> "returned",
                    findings |->
                      [critical |-> SelectSeq(found, LAMBDA f : BucketOf(f) = "critical")
                                        \o processFindings,
                       warning |-> SelectSeq(found, LAMBDA f : BucketOf(f) = "warning"),
                       info |-> SelectSeq(found, LAMBDA f : BucketOf(f) = "info")
                                    \o credFindings]]
                 : found \in {all} })

\* scan(options): [outcome, findings], outcome "returned", "threw", or
\* "exited" when scan itself calls process.exit(1)
scan(worm, dirs, options, h) ==
    IF ~worm.exists THEN [outcome |-> "exited", findings |-> EmptyBuckets]
    ELSE IF ~worm.readable THEN [outcome |-> "threw", findings |-> EmptyBuckets]
    ELSE The({ The({Aggregate(passes, options, h) :
                       passes \in {[i \in 1..Len(dirs) |-> ScanDirectory(dirs[i], db, options)]}})
             : db \in {loadInfectedPackages(worm.content)} })

\* the code the process exits with
ExitCode(r) ==
    CASE r.outcome = "exited" -> 1
      [] r.outcome = "threw" -> 2
      [] OTHER -> IF Len(r.findings.critical) > 0 THEN 1 ELSE 0

(***************************************************************************)
(* lib/scanner.js, step by step: the two walks as the call stack sees      *)
(* them.  A frame is one activation of the inner scan(currentDir) after    *)
(* its readdirSync succeeded: the directory's path, the entries read, and  *)
(* the index of the entry the for loop handles next.  A walk is            *)
(* [kind, stack, results, errors, visited]: errors lists the onError calls *)
(* and visited the paths of the entries the loop body ran for.             *)
(***************************************************************************)
RECURSIVE ReadDirSync(_, _)
\* fs.readdirSync of what `node` is, in the file system below `top`: a link
\* is followed to the directory it names
ReadDirSync(top, node) ==
    CASE node.type = "dir" ->
             IF node.readable THEN [ok |-> TRUE, entries |-> node.entries]
             ELSE [ok |-> FALSE, entries |-> <<>>]
      [] node.type = "symlink" -> ReadDirSync(top, NodeAt(top, node.target))
      [] OTHER -> [ok |-> FALSE, entries |-> <<>>]

\* mutant: onError is called twice for a failed read
ReportErrorTwice(errors, currentDir) == errors \o <<currentDir, currentDir>>

\* `if (onError) onError(currentDir, err)`
ReportError(errors, currentDir) == Append(errors, currentDir)

\* the call scan(currentDir) up to the start of its for loop
Called(top, w, currentDir, node) ==
    LET r == ReadDirSync(top, node)
    IN  IF r.ok
        THEN [w EXCEPT !.stack = Append(@, [dir |-> currentDir, entries |-> r.entries, i |-> 1])]
        ELSE [w EXCEPT !.errors = ReportError(@, currentDir)]

\* the frame on top of the stack and the entry its loop is at
TopFrame(w) == w.stack[Len(w.stack)]
CurrentEntry(w) == TopFrame(w).entries[TopFrame(w).i]
CurrentPath(w) == PathJoin(TopFrame(w).dir, CurrentEntry(w).name)

\* the loop moves on to the next entry
Advanced(w) ==
    [w EXCEPT !.stack[Len(w.stack)].i = @ + 1, !.visited = Append(@, CurrentPath(w))]

\* one pass through the for loop of findPackageFiles
PackageVisit(top, w) ==
    LET entry == CurrentEntry(w)
        fullPath == CurrentPath(w)
        next == Advanced(w)
        push(ty) == [next EXCEPT !.results = Append(@, [type |-> ty, path |-> fullPath])]
    IN  IF entry.name = "node_modules"
        THEN (IF ExistsSync(entry) THEN push("node_modules") ELSE next)
        ELSE IF StartsWith(entry.name, ".") /\ entry.name # ".github" THEN next
        ELSE IF IsDirectory(entry) THEN Called(top, next, fullPath, entry)
        ELSE IF entry.name = "package.json" THEN push("package.json")
        ELSE IF entry.name = "package-lock.json" THEN push("package-lock.json")
        ELSE next

\* one pass through the for loop of findMaliciousArtifacts
ArtifactVisit(top, w) ==
    LET entry == CurrentEntry(w)
        fullPath == CurrentPath(w)
        next == Advanced(w)
    IN  IF SkipsArtifactEntry(entry.name) THEN next
        ELSE IF IsDirectory(entry) THEN Called(top, next, fullPath, entry)
        ELSE [next EXCEPT !.results = @ \o FileArtifacts(entry.name, fullPath)]

\* the for loop of the top frame has entries left
InLoop(w) == w.stack # <<>> /\ TopFrame(w).i <= Len(TopFrame(w).entries)

\* the for loop of the top frame is over: scan(currentDir) returns
Returns(w) == w.stack # <<>> /\ TopFrame(w).i > Len(TopFrame(w).entries)

(***************************************************************************)
(* Idle values: each specification below drives one group of variables and *)
(* leaves the others at these values.                                      *)
(***************************************************************************)
LoaderIdle == wormFile = "" /\ packages = EmptyDb /\ loaderPc = "idle"
FormatsIdle == entries = <<>> /\ tableDb = EmptyDb /\ tsvDb = EmptyDb /\ formatsPc = {}
VersionIdle == declaredSpec = "" /\ resolved = "" /\ again = "" /\ versionPc = 0
AnalyzerIdle ==
    /\ manifest = Unparsable /\ infectedPackages = EmptyDb /\ verbose = FALSE
    /\ findings = <<>> /\ analyzerPc = "idle"
ScannerIdle ==
    /\ tree = Dir("", TRUE, <<>>) /\ rootPath = "" /\ artifactWalk = EmptyWalk
    /\ packageWalk = EmptyWalk /\ scannerPc = {}
LockIdle == lockfile = Unparsable /\ lockReturned = <<>> /\ lockPc = "idle"
NoWalk == [kind |-> "", stack |-> <<>>, results |-> <<>>, errors |-> <<>>, visited |-> <<>>]
WalkIdle == walk = NoWalk /\ walkPc = "idle"
NoStats == [uniquePackages |-> 0, totalVersions |-> 0]
SharedIdle ==
    /\ database = EmptyDb /\ sharedTarget = [dir |-> "", root |-> Missing("")]
    /\ sharedVerbose = FALSE /\ carried = {} /\ stats = NoStats /\ sharedDone = {}
NoHost == [processes |-> <<>>, credentialFiles |-> {}, homeDir |-> ""]
ScanIdle ==
    /\ wormMd = [exists |-> FALSE, readable |-> FALSE, content |-> ""]
    /\ directories = <<>>
    /\ scanOptions = [verbose |-> FALSE, checkProcesses |-> FALSE, checkCredentials |-> FALSE]
    /\ host = NoHost /\ buckets = EmptyBuckets /\ exitCode = -1 /\ scanPc = "idle"

(***************************************************************************)
(* Specification SpecLoader: worm.md holds any short text made of the      *)
(* line shapes below; loadInfectedPackages runs once.                      *)
(***************************************************************************)
MaxLines == 3

LoaderLines ==
    { "| Package | Version | Status |",
      "|---------|---------|--------|",
      "| bad-package | 1.0.0 | offline |",
      "| bad-package | 1.0.1 | offline |",
      "| @scope/pkg | 2.0.0 | offline |",
      "| my-Package | 3.0.0 | offline |",
      "| lonely |",
      "| tab-pkg\t| 4.0.0\t|",
      "|\tpiped\t5.0.0",
      "| Package\tVersion",
      "\tlead-pkg\t6.0.0",
      "bad-package\t1.0.0\toffline",
      "another-pkg\t3.0.0\toffline",
      "# Shai-Hulud 2 packages",
      "" }

WormFiles == {Join(ls, "\n") : ls \in SeqsUpTo(LoaderLines, MaxLines)}

LoaderInit ==
    /\ wormFile \in WormFiles
    /\ packages = EmptyDb
    /\ loaderPc = "start"
    /\ FormatsIdle /\ VersionIdle /\ AnalyzerIdle /\ ScannerIdle /\ ScanIdle /\ LockIdle /\ WalkIdle /\ SharedIdle

LoadInfectedPackages ==
    /\ loaderPc = "start"
    /\ packages' = loadInfectedPackages(wormFile)
    /\ loaderPc' = "done"
    /\ UNCHANGED <<wormFile, formatsVars, versionVars, analyzerVars, scannerVars, scanVars, lockVars, walkVars, sharedVars>>

LoaderNext == LoadInfectedPackages

SpecLoader == LoaderInit /\ [][LoaderNext]_vars

(***************************************************************************)
(* C1                                                                      *)
(***************************************************************************)
IsHeaderOrSeparator(line) == Includes(line, "| Package") \/ Includes(line, "|---")

\* the cells of a row `| c1 | c2 | ... |`: the trimmed texts after each pipe
RowCells(line) ==
    LET cut == Tail(Split(line, "|"))
    IN  [i \in 1..Len(cut) |-> Trim(cut[i])]

WormLines == Split(wormFile, "\n")

\* the data rows of worm.md: lines starting with a pipe that are not a header
\* or separator themselves, come after one, and have two non-empty cells
DataRows ==
    {i \in 1..Len(WormLines) :
        /\ StartsWith(WormLines[i], "|")
        /\ ~IsHeaderOrSeparator(WormLines[i])
        /\ \E j \in 1..(i - 1) : IsHeaderOrSeparator(WormLines[j])
        /\ Len(RowCells(WormLines[i])) >= 2
        /\ RowCells(WormLines[i])[1] # ""
        /\ RowCells(WormLines[i])[2] # ""}

\* C1: after loadInfectedPackages, every data row `| name | version | ... |`
\* of the table has its name in the database and its version in that name's
\* version set.
C1_EveryRowLoaded ==
    loaderPc = "done" =>
        \A i \in DataRows :
            LET name == RowCells(WormLines[i])[1]
                ver == RowCells(WormLines[i])[2]
            IN  DbHas(packages, name) /\ SetHas(packages[name], ver)

(***************************************************************************)
(* Specification SpecFormats: one list of (name, version) entries is       *)
(* written as a Markdown table and as tab-separated lines, the way         *)
(* test/loader.test.js writes them, and each text is loaded.               *)
(***************************************************************************)
MaxEntries == 2

EntryNames == {"bad-package", "@scope/pkg", "my-Package"}
EntryVersions == {"1.0.0", "2.0.0"}

RECURSIVE TableRows(_)
TableRows(es) ==
    IF es = <<>> THEN ""
    ELSE "| " \o es[1][1] \o " | " \o es[1][2] \o " | offline |\n" \o TableRows(Tail(es))

RECURSIVE TsvRows(_)
TsvRows(es) ==
    IF es = <<>> THEN ""
    ELSE es[1][1] \o "\t" \o es[1][2] \o "\toffline\n" \o TsvRows(Tail(es))

TableText(es) ==
    "\n| Package | Version | Status |\n|---------|---------|--------|\n" \o TableRows(es)

TsvText(es) == "\n" \o TsvRows(es)

FormatsInit ==
    /\ entries \in SeqsUpTo(EntryNames \X EntryVersions, MaxEntries)
    /\ tableDb = EmptyDb
    /\ tsvDb = EmptyDb
    /\ formatsPc = {}
    /\ LoaderIdle /\ VersionIdle /\ AnalyzerIdle /\ ScannerIdle /\ ScanIdle /\ LockIdle /\ WalkIdle /\ SharedIdle

LoadTable ==
    /\ "table" \notin formatsPc
    /\ tableDb' = loadInfectedPackages(TableText(entries))
    /\ formatsPc' = formatsPc \cup {"table"}
    /\ UNCHANGED <<entries, tsvDb, loaderVars, versionVars, analyzerVars, scannerVars, scanVars, lockVars, walkVars, sharedVars>>

LoadTsv ==
    /\ "tsv" \notin formatsPc
    /\ tsvDb' = loadInfectedPackages(TsvText(entries))
    /\ formatsPc' = formatsPc \cup {"tsv"}
    /\ UNCHANGED <<entries, tableDb, loaderVars, versionVars, analyzerVars, scannerVars, scanVars, lockVars, walkVars, sharedVars>>

FormatsNext == LoadTable \/ LoadTsv

SpecFormats == FormatsInit /\ [][FormatsNext]_vars

\* same names, same version set per name
DbEqual(a, b) ==
    /\ DOMAIN a = DOMAIN b
    /\ \A n \in DOMAIN a : Range(a[n]) = Range(b[n])

\* C2: the same entries loaded from the table text and from the
\* tab-separated text give equal databases.
C2_FormatsAgree == formatsPc = {"table", "tsv"} => DbEqual(tableDb, tsvDb)

(***************************************************************************)
(* Specification SpecVersion: extractVersion applied to a resolved          *)
(* specifier, then to its own result.                                      *)
(***************************************************************************)
MaxSpecLen == 4

SpecChars == {"^", "~", ">", "=", "<", " ", "1", "."}

RECURSIVE Strings(_, _)
\* every string over chars of length 0..n
Strings(chars, n) ==
    IF n = 0 THEN {""}
    ELSE LET shorter == Strings(chars, n - 1)
         IN  shorter \cup {s \o c : s \in {r \in shorter : Len(r) = n - 1}, c \in chars}

VersionInit ==
    /\ declaredSpec \in Strings(SpecChars, MaxSpecLen)
    /\ resolved = ""
    /\ again = ""
    /\ versionPc = 0
    /\ LoaderIdle /\ FormatsIdle /\ AnalyzerIdle /\ ScannerIdle /\ ScanIdle /\ LockIdle /\ WalkIdle /\ SharedIdle

ExtractVersion ==
    /\ versionPc = 0
    /\ resolved' = extractVersion(declaredSpec)
    /\ versionPc' = 1
    /\ UNCHANGED <<declaredSpec, again, loaderVars, formatsVars, analyzerVars, scannerVars, scanVars, lockVars, walkVars, sharedVars>>

ExtractVersionAgain ==
    /\ versionPc = 1
    /\ again' = extractVersion(resolved)
    /\ versionPc' = 2
    /\ UNCHANGED <<declaredSpec, resolved, loaderVars, formatsVars, analyzerVars, scannerVars, scanVars, lockVars, walkVars, sharedVars>>

VersionNext == ExtractVersion \/ ExtractVersionAgain

SpecVersion == VersionInit /\ [][VersionNext]_vars

\* C3: extractVersion is idempotent and its result never begins with one of
\* the operator characters ^ ~ > = <.
C3_Idempotent ==
    /\ versionPc = 2 => again = resolved
    /\ versionPc >= 1 => ~(\E op \in Operators : StartsWith(resolved, op))

\* C3 witness: a specifier with a leading operator run and a second token
\* has been reduced twice to a non-empty version.
C3_Witness ==
    /\ versionPc = 2
    /\ StartsWith(declaredSpec, ">=")
    /\ Includes(declaredSpec, " ")
    /\ resolved # ""

\* the first whitespace-delimited token of s: its first maximal run of
\* non-whitespace characters
FirstToken(s) ==
    LET solid == {i \in 1..Len(s) : CharAt(s, i) \notin WhiteSpace}
    IN  IF solid = {} THEN ""
        ELSE LET b == Min(solid)
                 e == Max({j \in b..Len(s) : \A k \in b..j : k \in solid})
             IN  SubSeq(s, b, e)

\* C4: extractVersion returns the first whitespace-delimited token of what
\* remains after the leading run of range operators is stripped.
C4_FirstToken ==
    versionPc >= 1 => resolved = FirstToken(StripOperators(declaredSpec))

(***************************************************************************)
(* Specification SpecAnalyzer: checkPackageJson on one package.json whose  *)
(* sections map package names to version-specifier strings.                *)
(***************************************************************************)
MaxDeps == 2

DepNames == {"evil", "left-pad"}
DepSpecs == {"1.0.0", "^1.0.1", ">=2.0.0 <3.0.0"}

\* the databases of the run, loaded from worm.md texts
AnalyzerDbs ==
    { loadInfectedPackages(TableText(<<<<"evil", "1.0.0">>, <<"evil", "1.0.1">>>>)),
      loadInfectedPackages(TsvText(<<<<"evil", "2.0.0">>, <<"left-pad", "1.0.0">>>>)) }

ScriptSets ==
    { <<>>,
      << <<"test", JStr("curl x")>>, <<"postinstall", JStr("node setup_bun.js")>> >> }

Declarations ==
    {<<t, n, v>> : t \in Range(DEPENDENCY_TYPES), n \in DepNames, v \in DepSpecs}

\* lists of declarations in which no section names a package twice
DeclarationLists ==
    {d \in SeqsUpTo(Declarations, MaxDeps) :
        \A i, j \in 1..Len(d) : (i # j) => (<<d[i][1], d[i][2]>> # <<d[j][1], d[j][2]>>)}

SectionOf(d, t) ==
    LET mine == SelectSeq(d, LAMBDA x : x[1] = t)
    IN  [i \in 1..Len(mine) |-> <<mine[i][2], JStr(mine[i][3])>>]

RECURSIVE SectionsFrom(_, _)
SectionsFrom(d, k) ==
    IF k > Len(DEPENDENCY_TYPES) THEN <<>>
    ELSE (IF SectionOf(d, DEPENDENCY_TYPES[k]) = <<>> THEN <<>>
          ELSE << <<DEPENDENCY_TYPES[k], JObj(SectionOf(d, DEPENDENCY_TYPES[k]))>> >>)
         \o SectionsFrom(d, k + 1)

\* the package.json document declaring d, with the scripts scr
ManifestOf(d, scr) ==
    JObj(<< <<"name", JStr("test-project")>>, <<"version", JStr("1.0.0")>> >>
         \o SectionsFrom(d, 1)
         \o (IF scr = <<>> THEN <<>> ELSE << <<"scripts", JObj(scr)>> >>))

Manifests ==
    {Unparsable} \cup {FileText(ManifestOf(d, scr)) : d \in DeclarationLists, scr \in ScriptSets}

ManifestPath == "/repo/package.json"

AnalyzerInit ==
    /\ manifest \in Manifests
    /\ infectedPackages \in AnalyzerDbs
    /\ verbose \in BOOLEAN
    /\ findings = <<>>
    /\ analyzerPc = "start"
    /\ LoaderIdle /\ FormatsIdle /\ VersionIdle /\ ScannerIdle /\ ScanIdle /\ LockIdle /\ WalkIdle /\ SharedIdle

CheckPackageJson ==
    /\ analyzerPc = "start"
    /\ LET r == checkPackageJson(ManifestPath, manifest, infectedPackages, [verbose |-> verbose])
       IN  /\ findings' = r.findings
           /\ analyzerPc' = IF r.threw THEN "threw" ELSE "done"
    /\ UNCHANGED <<manifest, infectedPackages, verbose, loaderVars, formatsVars, versionVars, scannerVars, scanVars, lockVars, walkVars, sharedVars>>

AnalyzerNext == CheckPackageJson

SpecAnalyzer == AnalyzerInit /\ [][AnalyzerNext]_vars

\* the declarations of section t of the manifest, as <<name, specifier>>
DeclaredIn(t) ==
    IF manifest.parses THEN ObjectEntries(Get(manifest.json, t)) ELSE <<>>

\* the positions of the findings of type ty for package pkg declared in section t
DepFindings(ty, pkg, t) ==
    {j \in 1..Len(findings) :
        /\ findings[j].type = ty
        /\ findings[j].package = pkg
        /\ findings[j].depType = t}

MaxDepth == 3

DirNames == {".github", "my.github", "workflows", "node_modules", "src"}

FileNames ==
    { "environment.json", "my-config.environment.json",
      "Sandbox.postman_environment.json", "formatter_12345.yml", "formatter_7.yaml",
      "formatter_.yml", "discussion.yaml", "package.json", "setup_bun.js" }

ScanRoots == {"/repo", "/ci/.github/workflows", "/app/node_modules/lib"}

SiblingSets ==
    { <<>>, <<File("my-config.environment.json", Unparsable), File("package.json", Unparsable)>> }

RECURSIVE Chain(_, _, _, _)
\* the entries of the directory at depth k - 1 of the chain ds
Chain(ds, k, unreadableAt, leaf) ==
    IF k > Len(ds) THEN <<leaf>>
    ELSE <<Dir(ds[k], unreadableAt # k, Chain(ds, k + 1, unreadableAt, leaf))>>

\* unreadableAt: -1 for none, 0 for the root, k for the k-th directory
ChainTree(ds, unreadableAt, leafName, siblings) ==
    Dir("", unreadableAt # 0, Chain(ds, 1, unreadableAt, File(leafName, Unparsable)) \o siblings)

ScannerTrees ==
    {ChainTree(ds, u, f, sib) :
        ds \in SeqsUpTo(DirNames, MaxDepth), u \in -1..MaxDepth,
        f \in FileNames, sib \in SiblingSets}

ScannerInit ==
    /\ tree \in ScannerTrees
    /\ rootPath \in ScanRoots
    /\ artifactWalk = EmptyWalk
    /\ packageWalk = EmptyWalk
    /\ scannerPc = {}
    /\ LoaderIdle /\ FormatsIdle /\ VersionIdle /\ AnalyzerIdle /\ ScanIdle /\ LockIdle /\ WalkIdle /\ SharedIdle

FindMaliciousArtifacts ==
    /\ "artifacts" \notin scannerPc
    /\ artifactWalk' = findMaliciousArtifacts(tree, rootPath)
    /\ scannerPc' = scannerPc \cup {"artifacts"}
    /\ UNCHANGED <<tree, rootPath, packageWalk, loaderVars, formatsVars, versionVars, analyzerVars, scanVars, lockVars, walkVars, sharedVars>>

FindPackageFiles ==
    /\ "packages" \notin scannerPc
    /\ packageWalk' = findPackageFiles(tree, rootPath)
    /\ scannerPc' = scannerPc \cup {"packages"}
    /\ UNCHANGED <<tree, rootPath, artifactWalk, loaderVars, formatsVars, versionVars, analyzerVars, scanVars, lockVars, walkVars, sharedVars>>

ScannerNext == FindMaliciousArtifacts \/ FindPackageFiles

SpecScanner == ScannerInit /\ [][ScannerNext]_vars

RECURSIVE FilesUnder(_, _, _)
\* every non-directory entry below dir, with its path and the directories
\* from the scan root down to its parent
FilesUnder(dir, currentDir, above) ==
    UNION { IF IsDirectory(dir.entries[i])
            THEN FilesUnder(dir.entries[i], PathJoin(currentDir, dir.entries[i].name),
                            Append(above, dir.entries[i]))
            ELSE {[name |-> dir.entries[i].name,
                   path |-> PathJoin(currentDir, dir.entries[i].name),
                   above |-> above]}
          : i \in 1..Len(dir.entries) }

TreeFiles == FilesUnder(tree, rootPath, <<tree>>)

\* every directory from the scan root down to f can be read
Readable(f) == \A k \in 1..Len(f.above) : f.above[k].readable

\* the walk reaches f: f can be read and no directory below the scan root
\* on the way to it is named node_modules, nor is f itself
Reached(f) ==
    /\ Readable(f)
    /\ \A k \in 2..Len(f.above) : f.above[k].name # "node_modules"
    /\ f.name # "node_modules"

\* how often findMaliciousArtifacts reported f under the rule `artifact`
TimesReported(f, artifact) ==
    Cardinality({j \in 1..Len(artifactWalk.results) :
                    /\ artifactWalk.results[j].path = f.path
                    /\ artifactWalk.results[j].artifact = artifact})

BasenameRules == {a \in Range(MALICIOUS_ARTIFACTS) : ~Includes(a, "/")}

\* C7 as stated: a basename rule fires for a file if and only if the file's
\* name is the artifact name, at any depth of the tree that can be read.
C7_ExactNameAnywhere ==
    "artifacts" \in scannerPc =>
        \A f \in TreeFiles : \A a \in BasenameRules :
            Readable(f) => ((TimesReported(f, a) >= 1) <=> (f.name = a))

\* C7 amended: a basename rule fires for a file, once, if and only if the
\* file's name is the artifact name and the walk reaches the file (no
\* node_modules above it, every directory above it readable).
C7_ExactNameWhereReached ==
    "artifacts" \in scannerPc =>
        \A f \in TreeFiles : \A a \in BasenameRules :
            /\ (TimesReported(f, a) >= 1) <=> (f.name = a /\ Reached(f))
            /\ TimesReported(f, a) <= 1

\* C7 witness: environment.json two or more directories down is reported
\* while my-config.environment.json, reached by the same walk, is not.
C7_Witness ==
    /\ "artifacts" \in scannerPc
    /\ \E f \in TreeFiles :
        /\ f.name = "environment.json" /\ Len(f.above) >= 3
        /\ TimesReported(f, "environment.json") = 1
    /\ \E g \in TreeFiles :
        /\ g.name = "my-config.environment.json" /\ Reached(g)
        /\ TimesReported(g, "environment.json") = 0

\* a name of the form formatter_<digits>.yml or formatter_<digits>.yaml
IsFormatterName(name) ==
    \E j \in 11..Len(name) :
        /\ SubSeq(name, 1, 10) = "formatter_"
        /\ \A k \in 11..j : CharAt(name, k) \in Digits
        /\ SubSeq(name, j + 1, Len(name)) \in {".yml", ".yaml"}

\* the file lies inside a directory named workflows whose parent directory
\* is named .github
InsideGithubWorkflows(f) ==
    LET parts == Split(f.path, "/")
    IN  \E k \in 1..(Len(parts) - 2) : parts[k] = ".github" /\ parts[k + 1] = "workflows"

\* C8: a reached file named formatter_<digits>.yml or .yaml is reported as
\* suspicious_workflow when it lies under .github/workflows/, and is not
\* reported when it is not inside a directory named workflows whose parent
\* is named .github.
C8_WorkflowOnlyUnderGithub ==
    "artifacts" \in scannerPc =>
        \A f \in TreeFiles :
            IsFormatterName(f.name) =>
                /\ (InsideGithubWorkflows(f) /\ Reached(f))
                        => TimesReported(f, "suspicious_workflow") = 1
                /\ ~InsideGithubWorkflows(f)
                        => TimesReported(f, "suspicious_workflow") = 0

\* the names on a result's path below the scan root
BelowRoot(path) == Split(SubSeq(path, Len(rootPath) + 2, Len(path)), "/")

\* C9: no result of findMaliciousArtifacts, and no directory it tried to
\* read, has a path through an entry named node_modules below the scan root.
C9_NodeModulesExcluded ==
    "artifacts" \in scannerPc =>
        /\ \A j \in 1..Len(artifactWalk.results) :
            "node_modules" \notin Range(BelowRoot(artifactWalk.results[j].path))
        /\ \A j \in 1..Len(artifactWalk.errors) :
            artifactWalk.errors[j] = rootPath
                \/ "node_modules" \notin Range(BelowRoot(artifactWalk.errors[j]))

\* C9 witness: the walk is done on a tree that holds setup_bun.js under a
\* readable node_modules subtree, and reported nothing for it.
C9_Witness ==
    /\ "artifacts" \in scannerPc
    /\ \E f \in TreeFiles :
        /\ f.name = "setup_bun.js"
        /\ Readable(f)
        /\ \E k \in 2..Len(f.above) : f.above[k].name = "node_modules"
        /\ TimesReported(f, "setup_bun.js") = 0

(***************************************************************************)
(* Specification SpecScan: the CLI runs once.  The target is a project     *)
(* with a manifest, possibly a lockfile, and one node_modules directory    *)
(* that holds an installed package, directly or below other packages.      *)
(***************************************************************************)
MaxNesting == 1

IocText ==
    TableText(<<<<"evil", "1.0.0">>, <<"evil", "1.0.1">>, <<"@scope/pkg", "1.0.0">>>>)

WormMds ==
    { [exists |-> TRUE, readable |-> TRUE, content |-> IocText],
      [exists |-> TRUE, readable |-> FALSE, content |-> IocText],
      [exists |-> FALSE, readable |-> FALSE, content |-> ""] }

PackageJson(name, version) ==
    File("package.json",
         FileText(JObj(<< <<"name", JStr(name)>>, <<"version", JStr(version)>> >>)))

\* what the installed package's own package.json is
PackageStates == {"infected", "other", "missing", "unparsable"}

\* the directory of the installed package, with the worm's payload in it
PackageDir(dirName, pkgName, st) ==
    Dir(dirName, TRUE,
        (CASE st = "infected" -> <<PackageJson(pkgName, "1.0.0")>>
           [] st = "other" -> <<PackageJson(pkgName, "9.9.9")>>
           [] st = "unparsable" -> <<File("package.json", Unparsable)>>
           [] OTHER -> <<>>)
        \o <<File("setup_bun.js", Unparsable)>>)

RECURSIVE Installed(_, _, _)
\* the entries of a node_modules directory with the package n levels down
Installed(kind, n, st) ==
    IF n = 0
    THEN <<Dir("left-pad", TRUE, <<PackageJson("left-pad", "1.0.0")>>)>>
         \o (IF kind = "scoped"
             THEN <<Dir("@scope", TRUE, <<PackageDir("pkg", "@scope/pkg", st)>>)>>
             ELSE <<PackageDir("evil", "evil", st)>>)
    ELSE <<Dir("host", TRUE,
               <<PackageJson("host", "1.0.0"),
                 Dir("node_modules", TRUE, Installed(kind, n - 1, st))>>)>>

\* the project's own package.json, and lockfile if any: both name evil or neither
CleanManifest == FileText(ManifestOf(<<>>, <<>>))

DeclaringManifest == FileText(ManifestOf(<< <<"dependencies", "evil", "^1.0.0">> >>, <<>>))

LockedEvil ==
    FileText(JObj(<< <<"lockfileVersion", JNum(3)>>,
                     <<"packages",
                       JObj(<< <<"", JObj(<< <<"name", JStr("test-project")>> >>)>>,
                               <<"node_modules/evil",
                                 JObj(<< <<"version", JStr("1.0.0")>> >>)>> >>)>> >>))

ProjectFiles ==
    { <<File("package.json", CleanManifest)>>,
      <<File("package.json", DeclaringManifest), File("package-lock.json", LockedEvil)>> }

\* where the project keeps node_modules: at its top, in a folder, in a hidden folder
Holders == {"", "app", ".cache"}

Project(holder, nodeModules, files) ==
    Dir("", TRUE,
        files \o (IF holder = "" THEN <<nodeModules>>
                  ELSE <<Dir(holder, TRUE, <<nodeModules>>)>>))

Projects ==
    {Project(holder, Dir("node_modules", nmReadable, Installed(kind, n, st)), files) :
        holder \in Holders, nmReadable \in BOOLEAN, kind \in {"plain", "scoped"},
        n \in 0..MaxNesting, st \in PackageStates, files \in ProjectFiles}

Targets ==
    {[dir |-> "/work/proj", root |-> p] : p \in Projects}
        \cup {[dir |-> "/work/gone", root |-> Missing("gone")]}

\* projects scanned two at a time: one with the same infected package in
\* its manifest, its lockfile and its node_modules, and a payload file
Stricken ==
    Dir("", TRUE,
        <<File("package.json", DeclaringManifest), File("package-lock.json", LockedEvil),
          Dir("node_modules", TRUE, Installed("plain", 0, "infected")),
          File("setup_bun.js", Unparsable)>>)

\* one that declares another version of a targeted package, runs a payload
\* on postinstall, and has a broken lockfile, a broken installed package
\* and a payload file
Scripted ==
    Dir("", TRUE,
        <<File("package-lock.json", Unparsable),
          File("package.json",
               FileText(ManifestOf(<< <<"dependencies", "evil", "^2.0.0">> >>,
                                   << <<"postinstall", JStr("node setup_bun.js")>> >>))),
          Dir("node_modules", TRUE, Installed("plain", 0, "unparsable")),
          File("bun_environment.js", Unparsable)>>)

\* a workspace: a lockfile at the top, manifests at the top and in a package
Workspace ==
    Dir("", TRUE,
        <<File("package.json", CleanManifest), File("package-lock.json", LockedEvil),
          Dir("app", TRUE, <<File("cloud.json", Unparsable),
                             File("package.json", DeclaringManifest)>>)>>)

\* a project whose lockfile holds the JSON text `null`
Broken ==
    Dir("", TRUE,
        <<File("package.json", DeclaringManifest), File("package-lock.json", FileText(JNull))>>)

Siblings ==
    {Stricken, Scripted, Workspace, Broken,
     Dir("", TRUE, <<File("package.json", CleanManifest)>>), Missing("gone")}

\* two directories on the command line
TargetPairs ==
    {<<[dir |-> "/work/a", root |-> p], [dir |-> "/work/b", root |-> q]>> :
        p \in Siblings, q \in Siblings}

\* a host with nothing to find, and one with a worm process and credentials
QuietHost == [processes |-> <<>>, credentialFiles |-> {}, homeDir |-> "/home/dev"]

BusyHost ==
    [processes |-> <<[type |-> "SUSPICIOUS_PROCESS", severity |-> "CRITICAL",
                      process |-> "dev 4711 bun run bun_environment.js"]>>,
     credentialFiles |-> {".npmrc", ".aws/credentials"}, homeDir |-> "/home/dev"]

\* the command lines: plain or --full, each with and without --verbose;
\* --full is run on the busy host
Runs ==
    {[options |-> [verbose |-> v, checkProcesses |-> full, checkCredentials |-> full],
      host |-> IF full THEN BusyHost ELSE QuietHost] : v \in BOOLEAN, full \in BOOLEAN}

\* worm.md is broken only in runs on the first project
ScanInit ==
    /\ wormMd \in WormMds
    /\ directories \in IF wormMd.exists /\ wormMd.readable
                       THEN {<<t>> : t \in Targets} \cup TargetPairs
                       ELSE {<<CHOOSE t \in Targets : TRUE>>}
    /\ \E run \in Runs : scanOptions = run.options /\ host = run.host
    /\ buckets = EmptyBuckets
    /\ exitCode = -1
    /\ scanPc = "start"
    /\ LoaderIdle /\ FormatsIdle /\ VersionIdle /\ AnalyzerIdle /\ ScannerIdle /\ LockIdle /\ WalkIdle /\ SharedIdle

\* `node index.js <directories>`: scan, then process.exit
RunScan ==
    /\ scanPc = "start"
    /\ LET r == scan(wormMd, directories, scanOptions, host)
       IN  /\ buckets' = r.findings
           /\ exitCode' = ExitCode(r)
           /\ scanPc' = r.outcome
    /\ UNCHANGED <<wormMd, directories, scanOptions, host,
                   loaderVars, formatsVars, versionVars, analyzerVars, scannerVars, lockVars, walkVars, sharedVars>>

ScanNext == RunScan

SpecScan == ScanInit /\ [][ScanNext]_vars

(***************************************************************************)
(* Installed packages                                                      *)
(***************************************************************************)
RECURSIVE DirsUnder(_, _, _)
\* every directory below dir, with its path and the directories between
\* the target and it
DirsUnder(dir, currentDir, above) ==
    UNION { IF IsDirectory(dir.entries[i])
            THEN {[node |-> dir.entries[i],
                   path |-> PathJoin(currentDir, dir.entries[i].name),
                   above |-> above]}
                 \cup DirsUnder(dir.entries[i], PathJoin(currentDir, dir.entries[i].name),
                                Append(above, dir.entries[i]))
            ELSE {}
          : i \in 1..Len(dir.entries) }

\* the node_modules directories anywhere below the targets
NodeModulesDirs ==
    UNION { IF IsDirectory(directories[i].root)
            THEN {d \in DirsUnder(directories[i].root, directories[i].dir, <<>>) :
                     d.node.name = "node_modules"}
            ELSE {}
          : i \in 1..Len(directories) }

\* the packages installed in the node_modules directory d
PackagesOf(d) ==
    UNION { LET c == d.node.entries[i]
                cPath == PathJoin(d.path, c.name)
            IN  IF ~IsDirectory(c) THEN {}
                ELSE IF StartsWith(c.name, "@")
                THEN {[name |-> c.name \o "/" \o c.entries[j].name,
                       path |-> PathJoin(cPath, c.entries[j].name),
                       node |-> c.entries[j], home |-> d] :
                         j \in {k \in 1..Len(c.entries) : IsDirectory(c.entries[k])}}
                ELSE {[name |-> c.name, path |-> cPath, node |-> c, home |-> d]}
          : i \in 1..Len(d.node.entries) }

InstalledPackages == UNION {PackagesOf(d) : d \in NodeModulesDirs}

IocDb == loadInfectedPackages(wormMd.content)

\* p's name is in the database db and its own package.json carries an
\* infected version
InfectedIn(db, p) ==
    /\ DbHas(db, p.name)
    /\ LET e == ChildNamed(p.node, "package.json")
       IN  /\ e.type = "file" /\ e.text.parses /\ e.text.json.t = "object"
           /\ Get(e.text.json, "version").t = "string"
           /\ SetHas(db[p.name], Get(e.text.json, "version").s)

\* the installed packages the claim is about
InfectedInstalls == UNION {{p \in InstalledPackages : InfectedIn(db, p)} : db \in {IocDb}}

\* every directory from the target down to p's node_modules can be read
CanBeRead(p) ==
    /\ p.home.node.readable
    /\ \A k \in 1..Len(p.home.above) : p.home.above[k].readable

\* findPackageFiles records the node_modules directory d: no directory
\* above it is hidden (other than .github) or itself a node_modules
Recorded(d) ==
    \A k \in 1..Len(d.above) :
        /\ d.above[k].name # "node_modules"
        /\ ~StartsWith(d.above[k].name, ".") \/ d.above[k].name = ".github"

TimesInstalledReported(p) ==
    Cardinality({j \in 1..Len(buckets.critical) :
                    /\ buckets.critical[j].type = "INSTALLED_INFECTED_PACKAGE"
                    /\ buckets.critical[j].package = p.name
                    /\ buckets.critical[j].path = p.path})

ArtifactInside(p) ==
    \E j \in 1..Len(buckets.critical) :
        /\ buckets.critical[j].type = "MALICIOUS_ARTIFACT"
        /\ StartsWith(buckets.critical[j].path, p.path \o "/")

MaxLockEntries == 2

LockDb ==
    loadInfectedPackages(
        TableText(<<<<"evil", "1.0.0">>, <<"evil", "1.0.1">>, <<"@scope/pkg", "2.0.0">>>>))

\* install paths: the root project, direct, scoped, nested and workspace installs
LockKeys ==
    { "", "node_modules/@scope/pkg", "node_modules/evil", "node_modules/left-pad",
      "node_modules/host/node_modules/@scope/pkg", "packages/app/node_modules/evil" }

LockInfos ==
    { JObj(<< <<"version", JStr("1.0.0")>> >>),
      JObj(<< <<"version", JStr("2.0.0")>>, <<"dev", JStr("true")>> >>),
      JObj(<< <<"resolved", JStr("https://registry.npmjs.org/x.tgz")>> >>) }

\* `packages` mappings: an object has each key once
LockMappings ==
    {es \in SeqsUpTo(LockKeys \X LockInfos, MaxLockEntries) :
        \A i, j \in 1..Len(es) : (i # j) => (es[i][1] # es[j][1])}

\* `dependencies` mappings of the v1 shape
LockDependencies ==
    { <<>>,
      << <<"@scope/pkg", JObj(<< <<"version", JStr("2.0.0")>> >>)>> >>,
      << <<"host", JObj(<< <<"version", JStr("1.0.0")>>,
                           <<"dependencies",
                             JObj(<< <<"evil", JObj(<< <<"version", JStr("1.0.1")>> >>)>> >>)>>
                        >>)>>,
         <<"evil", JObj(<< <<"version", JStr("2.0.0")>> >>)>> >> }

LockDocument(pk, deps) ==
    JObj(<< <<"name", JStr("test-project")>>, <<"lockfileVersion", JNum(2)>> >>
         \o (IF pk = <<>> THEN <<>> ELSE << <<"packages", JObj(pk)>> >>)
         \o (IF deps = <<>> THEN <<>> ELSE << <<"dependencies", JObj(deps)>> >>))

Lockfiles == {FileText(LockDocument(pk, deps)) : pk \in LockMappings, deps \in LockDependencies}

LockPath == "/repo/package-lock.json"

LockInit ==
    /\ lockfile \in Lockfiles
    /\ lockReturned = <<>>
    /\ lockPc = "start"
    /\ manifest = Unparsable /\ findings = <<>> /\ analyzerPc = "idle"
    /\ infectedPackages = LockDb
    /\ verbose \in BOOLEAN
    /\ LoaderIdle /\ FormatsIdle /\ VersionIdle /\ ScannerIdle /\ ScanIdle /\ WalkIdle /\ SharedIdle

CheckPackageLock ==
    /\ lockPc = "start"
    /\ LET r == checkPackageLock(LockPath, lockfile, infectedPackages, [verbose |-> verbose])
       IN  /\ lockReturned' = r.findings
           /\ lockPc' = IF r.threw THEN "threw" ELSE "done"
    /\ UNCHANGED <<lockfile, analyzerVars, loaderVars, formatsVars, versionVars, scannerVars,
                   scanVars, walkVars, sharedVars>>

LockNext == CheckPackageLock

SpecLock == LockInit /\ [][LockNext]_vars

\* the `packages` mapping and the top-level `dependencies` mapping of the lockfile
PackagesOfLock == ObjectEntries(Get(lockfile.json, "packages"))
DependenciesOfLock == ObjectEntries(Get(lockfile.json, "dependencies"))

\* the findings returned for the package `name`
LockedFindingsFor(name) ==
    SelectSeq(lockReturned,
              LAMBDA f : f.type = "INFECTED_LOCKED_PACKAGE" /\ f.package = name)

ScopedKey == "node_modules/@scope/pkg"

\* the lockfile lists @scope/pkg at the install path ScopedKey with an
\* infected version, and nowhere else
ScopedEntryAlone ==
    /\ \E i \in 1..Len(PackagesOfLock) :
          /\ PackagesOfLock[i][1] = ScopedKey
          /\ Get(PackagesOfLock[i][2], "version") = JStr("2.0.0")
    /\ \A i \in 1..Len(PackagesOfLock) :
          EndsWith(PackagesOfLock[i][1], "@scope/pkg") => PackagesOfLock[i][1] = ScopedKey
    /\ \A i \in 1..Len(DependenciesOfLock) : DependenciesOfLock[i][1] # "@scope/pkg"

\* C11: a lockfile whose `packages` mapping has an entry at
\* node_modules/@scope/pkg with an infected version of @scope/pkg makes
\* checkPackageLock return exactly one INFECTED_LOCKED_PACKAGE finding for
\* it: CRITICAL, package "@scope/pkg", that version, the lockfile's path.
C11_ScopedLockEntry ==
    (lockPc # "start" /\ ScopedEntryAlone) =>
        /\ lockPc = "done"
        /\ LockedFindingsFor("@scope/pkg")
             = <<[type |-> "INFECTED_LOCKED_PACKAGE", severity |-> "CRITICAL",
                  package |-> "@scope/pkg", version |-> "2.0.0", file |-> LockPath,
                  installed |-> TRUE]>>

\* the scoped entry beside another infected entry: one finding for each
C11_Witness ==
    /\ lockPc = "done" /\ ScopedEntryAlone
    /\ Len(LockedFindingsFor("@scope/pkg")) = 1
    /\ Len(LockedFindingsFor("evil")) = 1

(***************************************************************************)
(* Exit codes                                                              *)
(***************************************************************************)
\* loadInfectedPackages can read worm.md
DatabaseLoads == wormMd.exists /\ wormMd.readable

\* C12: the process exits with 0 when the scan completes with an empty
\* critical bucket, with 1 when the critical bucket is not empty, and with
\* 2 whenever worm.md is missing or cannot be read, so that a load failure
\* never shares its code with a scan result.
C12_ExitCodes ==
    scanPc # "start" =>
        /\ (scanPc = "returned" /\ buckets.critical = <<>>) => exitCode = 0
        /\ (scanPc = "returned" /\ buckets.critical # <<>>) => exitCode = 1
        /\ ~DatabaseLoads => exitCode = 2

(***************************************************************************)
(* Specification SpecWalk: one walk of findPackageFiles or of              *)
(* findMaliciousArtifacts, an entry at a time, over trees that hold        *)
(* directories that cannot be read (no permission, or deleted since the    *)
(* parent was listed), a node_modules entry that is gone, and symbolic     *)
(* links to a directory above them.  SpecWalkLive adds that the walk, once *)
(* called, keeps running: it is synchronous code.                          *)
(***************************************************************************)
MaxWalkEntries == 3
MaxStack == 4

WalkRoot == "/repo"

WalkItems ==
    { File("package.json", Unparsable),
      File("setup_bun.js", Unparsable),
      Dir("locked", FALSE, <<File("package.json", Unparsable),
                             File("bun_environment.js", Unparsable)>>),
      Dir(".cache", FALSE, <<File("cloud.json", Unparsable)>>),
      Link("up", WalkRoot),
      Missing("node_modules"),
      Dir("lib", TRUE, <<Dir("node_modules", TRUE, <<File("package.json", Unparsable)>>),
                         File("package-lock.json", Unparsable)>>),
      Dir("deep", TRUE,
          <<Dir("gone", FALSE, <<>>),
            Dir("inner", TRUE, <<Link("back", "/repo/deep"),
                                 File("package.json", Unparsable)>>),
            File("package-lock.json", Unparsable),
            File("cloud.json", Unparsable)>>) }

\* a directory lists each name once
WalkTrees ==
    {Dir("", TRUE, es) : es \in {x \in SeqsUpTo(WalkItems, MaxWalkEntries) :
                                    \A i, j \in 1..Len(x) : (i # j) => (x[i] # x[j])}}
        \cup {Dir("", FALSE, <<File("package.json", Unparsable)>>)}

WalkInit ==
    /\ tree \in WalkTrees
    /\ rootPath = WalkRoot
    /\ artifactWalk = EmptyWalk /\ packageWalk = EmptyWalk /\ scannerPc = {}
    /\ walk = NoWalk
    /\ walkPc = "start"
    /\ LoaderIdle /\ FormatsIdle /\ VersionIdle /\ AnalyzerIdle /\ ScanIdle /\ LockIdle /\ SharedIdle

WalkTop == [dir |-> rootPath, root |-> tree]

\* findPackageFiles(dir, options, onError) is called: scan(dir)
CallFindPackageFiles ==
    /\ walkPc = "start"
    /\ walk' = Called(WalkTop, [NoWalk EXCEPT !.kind = "packages"], rootPath, tree)
    /\ walkPc' = "running"
    /\ UNCHANGED <<loaderVars, formatsVars, versionVars, analyzerVars, scannerVars, scanVars,
                   lockVars, sharedVars>>

\* findMaliciousArtifacts(dir, onError) is called: scan(dir)
CallFindMaliciousArtifacts ==
    /\ walkPc = "start"
    /\ walk' = Called(WalkTop, [NoWalk EXCEPT !.kind = "artifacts"], rootPath, tree)
    /\ walkPc' = "running"
    /\ UNCHANGED <<loaderVars, formatsVars, versionVars, analyzerVars, scannerVars, scanVars,
                   lockVars, sharedVars>>

\* the call stack has room for the call the loop is about to make
StackAllows == IsDirectory(CurrentEntry(walk)) => Len(walk.stack) < MaxStack

PackageStep ==
    /\ walkPc = "running" /\ walk.kind = "packages"
    /\ InLoop(walk) /\ StackAllows
    /\ walk' = PackageVisit(WalkTop, walk)
    /\ UNCHANGED <<walkPc, loaderVars, formatsVars, versionVars, analyzerVars, scannerVars,
                   scanVars, lockVars, sharedVars>>

ArtifactStep ==
    /\ walkPc = "running" /\ walk.kind = "artifacts"
    /\ InLoop(walk) /\ StackAllows
    /\ walk' = ArtifactVisit(WalkTop, walk)
    /\ UNCHANGED <<walkPc, loaderVars, formatsVars, versionVars, analyzerVars, scannerVars,
                   scanVars, lockVars, sharedVars>>

\* scan(currentDir) returns to the loop that called it
WalkReturn ==
    /\ walkPc = "running"
    /\ Returns(walk)
    /\ walk' = [walk EXCEPT !.stack = SubSeq(@, 1, Len(@) - 1)]
    /\ UNCHANGED <<walkPc, loaderVars, formatsVars, versionVars, analyzerVars, scannerVars,
                   scanVars, lockVars, sharedVars>>

\* `return results`
WalkFinish ==
    /\ walkPc = "running"
    /\ walk.stack = <<>>
    /\ walkPc' = "done"
    /\ UNCHANGED <<walk, loaderVars, formatsVars, versionVars, analyzerVars, scannerVars,
                   scanVars, lockVars, sharedVars>>

WalkNext ==
    \/ CallFindPackageFiles
    \/ CallFindMaliciousArtifacts
    \/ PackageStep
    \/ ArtifactStep
    \/ WalkReturn
    \/ WalkFinish

SpecWalk == WalkInit /\ [][WalkNext]_vars

SpecWalkLive == WalkInit /\ [][WalkNext]_vars /\ WF_vars(WalkNext)

(***************************************************************************)
(* Walks: termination and read errors                                      *)
(***************************************************************************)
\* what the walk that ran returns when followed through the whole tree at once
WholeWalk ==
    IF walk.kind = "packages" THEN findPackageFiles(tree, rootPath)
    ELSE findMaliciousArtifacts(tree, rootPath)

\* the entry named `name` is passed over without being looked at further
Skipped(kind, name) ==
    \/ name = "node_modules"
    \/ kind = "packages" /\ StartsWith(name, ".") /\ name # ".github"

\* the walk gets to the entry f of the tree: it can read every directory
\* above f and skips none of them
Walked(kind, f) ==
    /\ \A k \in 1..Len(f.above) : f.above[k].readable
    /\ \A k \in 2..Len(f.above) : ~Skipped(kind, f.above[k].name)

\* the files a walk of this kind has to report when it gets to them
Reportable(kind, f) ==
    IF kind = "packages" THEN f.name \in {"package.json", "package-lock.json"}
    ELSE f.name \in BasenameRules

\* the walk has returned, and returned what the readable part of the tree
\* holds: the results of a walk of the whole tree, in that order, among
\* them every reportable file the walk gets to, and nothing from below a
\* directory it could not read
Collected ==
    /\ walkPc = "done"
    /\ walk.results = WholeWalk.results
    /\ walk.errors = WholeWalk.errors
    /\ \A f \in TreeFiles :
          (Walked(walk.kind, f) /\ Reportable(walk.kind, f))
              => \E j \in 1..Len(walk.results) : walk.results[j].path = f.path
    /\ \A j \in 1..Len(walk.results) : \A k \in 1..Len(walk.errors) :
          ~StartsWith(walk.results[j].path, walk.errors[k] \o "/")

\* C13: on every tree, with unreadable directories, entries deleted during
\* the walk and symbolic links to a directory above them, findPackageFiles
\* and findMaliciousArtifacts terminate and return the results collected
\* from the readable part of the tree.
C13_WalksTerminate == <>Collected

\* a walk has returned results and met a failed read and a link upwards
C13_Witness ==
    /\ walkPc = "done"
    /\ walk.results # <<>> /\ walk.errors # <<>>
    /\ \E i \in 1..Len(tree.entries) : tree.entries[i].type = "symlink"
    /\ \E i \in 1..Len(tree.entries) : tree.entries[i].name = "deep"

\* the directories of the tree, the scanned directory included, with the
\* directory each is listed in
WalkDirs ==
    {[node |-> tree, path |-> rootPath, above |-> <<>>, parent |-> tree, top |-> TRUE]}
    \cup {[node |-> d.node, path |-> d.path, above |-> d.above,
           parent |-> IF d.above = <<>> THEN tree ELSE d.above[Len(d.above)],
           top |-> FALSE] : d \in DirsUnder(tree, rootPath, <<>>)}

\* the walk calls readdirSync on the directory d, and the call throws
ReadFails(kind, d) ==
    /\ ~d.node.readable
    /\ d.top \/ (/\ tree.readable
                 /\ ~Skipped(kind, d.node.name)
                 /\ \A k \in 1..Len(d.above) :
                       d.above[k].readable /\ ~Skipped(kind, d.above[k].name))

\* the paths of the entries listed after d in the directory that lists d
LaterSiblings(d) ==
    IF d.top THEN {}
    ELSE LET at == CHOOSE i \in 1..Len(d.parent.entries) : d.parent.entries[i] = d.node
             parentPath == SubSeq(d.path, 1, Len(d.path) - Len(d.node.name) - 1)
         IN  {PathJoin(parentPath, d.parent.entries[i].name) :
                 i \in (at + 1)..Len(d.parent.entries)}

TimesOnError(path) == Cardinality({k \in 1..Len(walk.errors) : walk.errors[k] = path})

\* C14: when reading a directory fails during findPackageFiles or
\* findMaliciousArtifacts, the walk does not throw but runs to its return;
\* the error callback is called exactly once with that directory's path,
\* and for no other path; nothing is recorded for that directory; and
\* every entry listed after it in its parent directory is still visited.
C14_ReadErrorContained ==
    walkPc = "done" =>
        /\ \A d \in WalkDirs :
              ReadFails(walk.kind, d) =>
                  /\ TimesOnError(d.path) = 1
                  /\ \A j \in 1..Len(walk.results) :
                        /\ walk.results[j].path # d.path
                        /\ ~StartsWith(walk.results[j].path, d.path \o "/")
                  /\ LaterSiblings(d) \subseteq Range(walk.visited)
        /\ \A k \in 1..Len(walk.errors) :
              \E d \in WalkDirs : ReadFails(walk.kind, d) /\ d.path = walk.errors[k]

\* a read failed two levels down, with entries after the failed directory
\* that were visited and reported
C14_Witness ==
    /\ walkPc = "done"
    /\ TimesOnError("/repo/deep/gone") = 1
    /\ "/repo/deep/cloud.json" \in Range(walk.visited)
    /\ \E j \in 1..Len(walk.results) : walk.results[j].path = "/repo/deep/cloud.json"
    /\ \E d \in WalkDirs : d.top /\ Len(d.node.entries) = MaxWalkEntries

(***************************************************************************)
(* scan: the three buckets                                                 *)
(***************************************************************************)
\* the findings the analyzers and the artifact scan produce for the
\* directories, in the order they are produced
Produced ==
    Concat([i \in 1..Len(directories) |->
               ScanDirectory(directories[i], IocDb, scanOptions).findings])

\* the findings of the optional system checks
SystemFindings ==
    (IF scanOptions.checkProcesses THEN checkRunningProcesses(host) ELSE <<>>)
        \o (IF scanOptions.checkCredentials THEN checkCredentialFiles(host) ELSE <<>>)

BucketNames == {"critical", "warning", "info"}

SeverityOf(bucket) ==
    CASE bucket = "critical" -> {"CRITICAL"}
      [] bucket = "warning" -> {"WARNING"}
      [] OTHER -> {"INFO"}

Occurrences(f, seq) == Cardinality({k \in 1..Len(seq) : seq[k] = f})

\* where the finding was found
LocationOf(f) ==
    IF "file" \in DOMAIN f THEN f.file ELSE IF "path" \in DOMAIN f THEN f.path ELSE ""

\* the position on the command line of the directory the finding lies in;
\* past the last one for a finding of the system checks
DirectoryOf(f) ==
    LET at == {i \in 1..Len(directories) :
                  StartsWith(LocationOf(f), directories[i].dir \o "/")}
    IN  IF at = {} \/ f.type \in {"SUSPICIOUS_PROCESS", "CREDENTIAL_FILE_EXISTS"}
        THEN Len(directories) + 1
        ELSE CHOOSE i \in at : TRUE

\* the check that produced the finding: 1 manifest, 2 lockfile,
\* 3 node_modules, 4 artifact scan
PhaseOf(f) ==
    CASE f.type \in {"INFECTED_PACKAGE", "KNOWN_TARGET", "SUSPICIOUS_SCRIPT"} -> 1
      [] f.type = "INFECTED_LOCKED_PACKAGE" -> 2
      [] f.type = "INSTALLED_INFECTED_PACKAGE" -> 3
      [] f.type = "MALICIOUS_ARTIFACT" -> 4
      [] f.type = "PARSE_ERROR" ->
            (IF "path" \in DOMAIN f THEN 3
             ELSE IF EndsWith(f.file, "package-lock.json") THEN 2 ELSE 1)
      [] OTHER -> 5

Before(f, g) ==
    \/ DirectoryOf(f) < DirectoryOf(g)
    \/ DirectoryOf(f) = DirectoryOf(g) /\ PhaseOf(f) <= PhaseOf(g)

\* C15: every finding the analyzers and the artifact scan produce is in
\* exactly one bucket, the one of its severity (CRITICAL critical, WARNING
\* warning, otherwise info), and each bucket keeps production order:
\* directories in the order given, and for each directory manifest
\* findings, lockfile findings, node_modules findings, artifact findings.
C15_BucketsBySeverityInOrder ==
    scanPc = "returned" =>
        \A produced \in {Produced} :
            /\ \A k \in 1..Len(produced) : \A b \in BucketNames :
                  Occurrences(produced[k], buckets[b]) =
                      IF produced[k].severity \in SeverityOf(b)
                      THEN Occurrences(produced[k], produced) ELSE 0
            /\ \A b \in BucketNames :
                  /\ \A k \in 1..Len(buckets[b]) : buckets[b][k].severity \in SeverityOf(b)
                  /\ \A j, k \in 1..Len(buckets[b]) :
                        j < k => Before(buckets[b][j], buckets[b][k])
                  /\ buckets[b] = SelectSeq(produced \o SystemFindings,
                                            LAMBDA f : f.severity \in SeverityOf(b))

\* two directories were scanned, and every bucket holds findings: the
\* critical bucket from both directories and from all four checks
C15_Witness ==
    /\ scanPc = "returned"
    /\ Len(directories) = 2
    /\ \A b \in BucketNames : buckets[b] # <<>>
    /\ {DirectoryOf(buckets.critical[k]) : k \in 1..Len(buckets.critical)} = {1, 2}
    /\ {PhaseOf(buckets.critical[k]) : k \in 1..Len(buckets.critical)} = {1, 2, 3, 4}
    /\ {PhaseOf(buckets.info[k]) : k \in 1..Len(buckets.info)} = {2, 3}

(***************************************************************************)
(* scan: nothing is dropped or merged                                      *)
(***************************************************************************)
\* the target's package.json declares evil@^1.0.0, its package-lock.json
\* locks evil at 1.0.0, and evil 1.0.0 is installed in its node_modules
CarriesThrice(target) ==
    /\ IsDirectory(target.root) /\ target.root.readable
    /\ ChildNamed(target.root, "package.json") = File("package.json", DeclaringManifest)
    /\ ChildNamed(target.root, "package-lock.json") = File("package-lock.json", LockedEvil)
    /\ \E nm \in {ChildNamed(target.root, "node_modules")} :
          /\ IsDirectory(nm) /\ nm.readable
          /\ \E pkg \in {ChildNamed(nm, "evil")} :
                /\ IsDirectory(pkg) /\ pkg.readable
                /\ ChildNamed(pkg, "package.json") = PackageJson("evil", "1.0.0")

\* how many critical findings of the type name evil@1.0.0 at the location
CriticalFor(type, location) ==
    Cardinality({k \in 1..Len(buckets.critical) :
                    /\ buckets.critical[k].type = type
                    /\ buckets.critical[k].package = "evil"
                    /\ buckets.critical[k].version = "1.0.0"
                    /\ LocationOf(buckets.critical[k]) = location})

\* C16: aggregation drops and merges nothing: a project whose package.json,
\* package-lock.json and node_modules carry the same infected
\* package@version yields three distinct critical findings, one each of
\* INFECTED_PACKAGE, INFECTED_LOCKED_PACKAGE and INSTALLED_INFECTED_PACKAGE,
\* and the three buckets together hold as many findings as were produced.
C16_NothingDroppedOrMerged ==
    scanPc = "returned" =>
        /\ \A i \in 1..Len(directories) :
              CarriesThrice(directories[i]) =>
                  /\ CriticalFor("INFECTED_PACKAGE",
                                 PathJoin(directories[i].dir, "package.json")) = 1
                  /\ CriticalFor("INFECTED_LOCKED_PACKAGE",
                                 PathJoin(directories[i].dir, "package-lock.json")) = 1
                  /\ CriticalFor("INSTALLED_INFECTED_PACKAGE",
                                 PathJoin(directories[i].dir, "node_modules/evil")) = 1
        /\ Len(buckets.critical) + Len(buckets.warning) + Len(buckets.info)
              = Len(Produced) + Len(SystemFindings)

\* both directories scanned carry the infection three times over
C16_Witness ==
    /\ scanPc = "returned"
    /\ Len(directories) = 2
    /\ \A i \in 1..2 : CarriesThrice(directories[i])
    /\ Len(buckets.critical) >= 6

(***************************************************************************)
(* Specification SpecShapes: checkPackageJson and checkPackageLock on      *)
(* files of any content: text that does not parse, and JSON documents      *)
(* whose values are not of the type the analyzers expect.                  *)
(***************************************************************************)
ShapeManifests ==
    { Unparsable,
      FileText(JNull),
      FileText(JNum(7)),
      FileText(JObj(<< <<"dependencies", JObj(<< <<"evil", JNum(1)>> >>)>> >>)),
      FileText(JObj(<< <<"dependencies", JObj(<< <<"left-pad", JNum(1)>> >>)>> >>)),
      FileText(JObj(<< <<"dependencies", JStr("evil")>> >>)),
      FileText(JObj(<< <<"scripts", JObj(<< <<"postinstall", JNum(1)>> >>)>> >>)),
      FileText(JObj(<< <<"scripts", JObj(<< <<"postinstall", JNull>> >>)>> >>)),
      DeclaringManifest }

ShapeLockfiles ==
    { Unparsable,
      FileText(JNull),
      FileText(JObj(<< <<"packages", JObj(<< <<"node_modules/evil", JNull>> >>)>> >>)),
      FileText(JObj(<< <<"packages", JObj(<< <<"node_modules/left-pad", JNull>> >>)>> >>)),
      FileText(JObj(<< <<"packages",
                        JObj(<< <<"node_modules/evil",
                                  JObj(<< <<"version", JNum(1)>> >>)>> >>)>> >>)),
      FileText(JObj(<< <<"dependencies", JObj(<< <<"left-pad", JNull>> >>)>> >>)),
      LockedEvil }

ShapesInit ==
    /\ manifest \in ShapeManifests
    /\ lockfile \in ShapeLockfiles
    /\ infectedPackages = LockDb
    /\ verbose \in BOOLEAN
    /\ findings = <<>> /\ analyzerPc = "start"
    /\ lockReturned = <<>> /\ lockPc = "start"
    /\ LoaderIdle /\ FormatsIdle /\ VersionIdle /\ ScannerIdle /\ ScanIdle /\ WalkIdle /\ SharedIdle

ShapesNext == CheckPackageJson \/ CheckPackageLock

SpecShapes == ShapesInit /\ [][ShapesNext]_vars

\* C17: checkPackageJson and checkPackageLock never throw past the call:
\* for every file content, unparsable text or well-formed JSON of any shape
\* (a top-level null, a version spec that is not a string, a lifecycle
\* script that is not a string, a lockfile entry that is null), they
\* return a list of findings.
C17_NeverThrows == analyzerPc # "threw" /\ lockPc # "threw"

\* C18: when a manifest or lockfile cannot be read or parsed as JSON, the
\* analysis of the file stops: the call returns exactly one PARSE_ERROR
\* finding of severity INFO carrying the file path when verbose is set, and
\* the empty list when it is not; no dependency, script or locked-package
\* finding is returned for the file.
C18_ParseFailureStops ==
    /\ (analyzerPc \notin {"start", "idle"} /\ ~manifest.parses) =>
          /\ analyzerPc = "done"
          /\ verbose => /\ Len(findings) = 1
                        /\ findings[1].type = "PARSE_ERROR"
                        /\ findings[1].severity = "INFO"
                        /\ findings[1].file = ManifestPath
          /\ ~verbose => findings = <<>>
    /\ (lockPc \notin {"start", "idle"} /\ ~lockfile.parses) =>
          /\ lockPc = "done"
          /\ verbose => /\ Len(lockReturned) = 1
                        /\ lockReturned[1].type = "PARSE_ERROR"
                        /\ lockReturned[1].severity = "INFO"
                        /\ lockReturned[1].file = LockPath
          /\ ~verbose => lockReturned = <<>>

\* both analyzers have returned from a file that does not parse, verbosely
C18_Witness ==
    /\ analyzerPc = "done" /\ lockPc = "done"
    /\ ~manifest.parses /\ ~lockfile.parses
    /\ verbose
    /\ findings = <<ParseError(ManifestPath)>>
    /\ lockReturned = <<ParseError(LockPath)>>

(***************************************************************************)
(* scan: one directory does not bear on another                            *)
(***************************************************************************)
\* scan run on the single directory given at position i
ScanOfOne(i) == scan(wormMd, <<directories[i]>>, scanOptions, host)

\* scan run on the same directories in the opposite order
ScanReversed ==
    scan(wormMd, [i \in 1..Len(directories) |-> directories[Len(directories) + 1 - i]],
         scanOptions, host)

IsSystemFinding(f) == f.type \in {"SUSPICIOUS_PROCESS", "CREDENTIAL_FILE_EXISTS"}

\* the part of a bucket that comes from the directories
OfDirectories(bucket) == SelectSeq(bucket, LAMBDA f : ~IsSystemFinding(f))

\* the part of a bucket that comes from the system checks
OfSystem(bucket) == SelectSeq(bucket, IsSystemFinding)

\* C20 as stated: for two directories d1 and d2 each bucket of
\* scan([d1, d2]) is the bucket of scan([d1]) followed by the bucket of
\* scan([d2]), and the opposite order yields the same set of findings.
C20_BucketsConcatenate ==
    (scanPc = "returned" /\ Len(directories) = 2) =>
        \A one \in {ScanOfOne(1)} : \A two \in {ScanOfOne(2)} :
        \A reversed \in {ScanReversed} :
            \A b \in BucketNames :
                /\ buckets[b] = one.findings[b] \o two.findings[b]
                /\ Range(reversed.findings[b]) = Range(buckets[b])

\* C20 amended: scan([d1, d2]) ends in an exception exactly when
\* scan([d1]) or scan([d2]) does; otherwise each bucket of scan([d1, d2])
\* is the directory findings of that bucket of scan([d1]), then those of
\* scan([d2]), then the findings of the system checks, which are made once
\* for the scan; and the opposite order ends the same way with the same
\* set of findings in every bucket.
C20_DirectoryFindingsConcatenate ==
    (scanPc # "start" /\ Len(directories) = 2) =>
        \A one \in {ScanOfOne(1)} : \A two \in {ScanOfOne(2)} :
        \A reversed \in {ScanReversed} :
            /\ scanPc = "threw" <=> (one.outcome = "threw" \/ two.outcome = "threw")
            /\ reversed.outcome = scanPc
            /\ scanPc = "returned" =>
                  \A b \in BucketNames :
                      /\ buckets[b] = OfDirectories(one.findings[b])
                                        \o OfDirectories(two.findings[b])
                                        \o OfSystem(one.findings[b])
                      /\ OfSystem(one.findings[b]) = OfSystem(two.findings[b])
                      /\ Range(reversed.findings[b]) = Range(buckets[b])

\* two directories with findings of their own were scanned together with
\* the system checks on, and the system checks found something
C20_Witness ==
    /\ scanPc = "returned" /\ Len(directories) = 2
    /\ directories[1].root = Stricken /\ directories[2].root = Scripted
    /\ OfSystem(buckets.critical) # <<>> /\ OfSystem(buckets.info) # <<>>
    /\ {DirectoryOf(f) : f \in Range(OfDirectories(buckets.critical))} = {1, 2}

(***************************************************************************)
(* Specification SpecShared: one database, loaded once, is handed to       *)
(* checkPackageJson, checkPackageLock, checkNodeModules and                *)
(* getPackageStats, and scan runs over the same worm.md; each is called    *)
(* once, in any order.  A finding's fields are strings and booleans, which *)
(* nobody can change, except infectedVersions, which is an object.         *)
(* `carried` keeps these objects, and whoever holds a finding may write to *)
(* the object it carries.                                                  *)
(***************************************************************************)
\* mutant: the finding is given the Set kept in the database
TheSetItself(pkg, versions) == [object |-> "Set", of |-> pkg, items |-> versions]

\* Array.from(infectedVersions): a new array with the versions of the Set
ArrayFrom(pkg, versions) == [object |-> "Array", of |-> pkg, items |-> versions]

\* the objects the findings carry
Carried(fs) ==
    {ArrayFrom(fs[j].package, fs[j].infectedVersions) :
        j \in {k \in 1..Len(fs) : "infectedVersions" \in DOMAIN fs[k]}}

SharedWorm == [exists |-> TRUE, readable |-> TRUE, content |-> IocText]

SharedTargets == {[dir |-> "/work/a", root |-> p] : p \in {Stricken, Scripted, Workspace}}

SharedOptions ==
    [verbose |-> sharedVerbose, checkProcesses |-> FALSE, checkCredentials |-> FALSE]

SharedInit ==
    /\ database = loadInfectedPackages(SharedWorm.content)
    /\ sharedTarget \in SharedTargets
    /\ sharedVerbose \in BOOLEAN
    /\ carried = {}
    /\ stats = NoStats
    /\ sharedDone = {}
    /\ LoaderIdle /\ FormatsIdle /\ VersionIdle /\ AnalyzerIdle /\ ScannerIdle /\ ScanIdle /\ LockIdle /\ WalkIdle

\* the call `name` returned the findings fs; it called has and get on the
\* Map and has on its Sets, and nothing else
SharedCall(name, fs) ==
    /\ name \notin sharedDone
    /\ sharedDone' = sharedDone \cup {name}
    /\ carried' = carried \cup Carried(fs)
    /\ UNCHANGED <<database, sharedTarget, sharedVerbose, stats,
                   loaderVars, formatsVars, versionVars, analyzerVars, scannerVars, scanVars,
                   lockVars, walkVars>>

SharedCheckPackageJson ==
    SharedCall("checkPackageJson",
               checkPackageJson(PathJoin(sharedTarget.dir, "package.json"),
                                ChildNamed(sharedTarget.root, "package.json").text,
                                database, SharedOptions).findings)

SharedCheckPackageLock ==
    SharedCall("checkPackageLock",
               checkPackageLock(PathJoin(sharedTarget.dir, "package-lock.json"),
                                ChildNamed(sharedTarget.root, "package-lock.json").text,
                                database, SharedOptions).findings)

SharedCheckNodeModules ==
    SharedCall("checkNodeModules",
               checkNodeModules(PathJoin(sharedTarget.dir, "node_modules"),
                                ChildNamed(sharedTarget.root, "node_modules"),
                                database, SharedOptions).findings)

\* scan loads worm.md itself, into the same Map
SharedScan ==
    \E r \in {scan(SharedWorm, <<sharedTarget>>, SharedOptions, QuietHost)} :
        SharedCall("scan", r.findings.critical \o r.findings.warning \o r.findings.info)

SharedGetPackageStats ==
    /\ "getPackageStats" \notin sharedDone
    /\ sharedDone' = sharedDone \cup {"getPackageStats"}
    /\ stats' = getPackageStats(database)
    /\ UNCHANGED <<database, sharedTarget, sharedVerbose, carried,
                   loaderVars, formatsVars, versionVars, analyzerVars, scannerVars, scanVars,
                   lockVars, walkVars>>

WrittenVersion == "0.0.0"

\* the holder of a finding adds a version to the object the finding carries:
\* to the array, or to the Set of the database if that is what it carries
HolderWrites ==
    \E o \in carried :
        /\ WrittenVersion \notin Range(o.items)
        /\ carried' = (carried \ {o}) \cup {[o EXCEPT !.items = Append(@, WrittenVersion)]}
        /\ database' = IF o.object = "Set"
                       THEN [database EXCEPT ![o.of] = SetAdd(@, WrittenVersion)]
                       ELSE database
        /\ UNCHANGED <<sharedTarget, sharedVerbose, stats, sharedDone,
                       loaderVars, formatsVars, versionVars, analyzerVars, scannerVars,
                       scanVars, lockVars, walkVars>>

SharedNext ==
    \/ SharedCheckPackageJson
    \/ SharedCheckPackageLock
    \/ SharedCheckNodeModules
    \/ SharedGetPackageStats
    \/ SharedScan
    \/ HolderWrites

SpecShared == SharedInit /\ [][SharedNext]_vars

AfterLastNodeModules(key) ==
    LET p == "node_modules/"
        at == {i \in 1..(Len(key) - Len(p) + 1) : SubSeq(key, i, i + Len(p) - 1) = p}
    IN  IF at = {} THEN key ELSE SubSeq(key, Max(at) + Len(p), Len(key))

\* the entries of `packages` that name an install path
InstallEntries ==
    {i \in 1..Len(PackagesOfLock) : Includes(PackagesOfLock[i][1], "node_modules/")}

\* the entry locks an infected version of the package installed at its key
LocksInfected(i) ==
    LET name == AfterLastNodeModules(PackagesOfLock[i][1])
        version == Get(PackagesOfLock[i][2], "version")
    IN  /\ DbHas(infectedPackages, name)
        /\ version.t = "string" /\ SetHas(infectedPackages[name], version.s)

\* C21: for every key of `packages`, the name checkPackageLock derives is
\* the part of the key after the last node_modules/ (scoped names whole),
\* so an infected entry at any install path, nested or below a workspace
\* folder (packages/app/node_modules/<name>), is matched under its name.
C21_NameAfterLastNodeModules ==
    lockPc = "done" =>
        \A i \in InstallEntries :
            /\ LockedName(PackagesOfLock[i][1]) = AfterLastNodeModules(PackagesOfLock[i][1])
            /\ LocksInfected(i) =>
                  \E j \in 1..Len(lockReturned) :
                      /\ lockReturned[j].type = "INFECTED_LOCKED_PACKAGE"
                      /\ lockReturned[j].package = AfterLastNodeModules(PackagesOfLock[i][1])
                      /\ lockReturned[j].version = Get(PackagesOfLock[i][2], "version").s

(***************************************************************************)
(* checkPackageLock: both shapes of a lockfile                             *)
(***************************************************************************)
LockedFinding(name, version) ==
    [type |-> "INFECTED_LOCKED_PACKAGE", severity |-> "CRITICAL", package |-> name,
     version |-> version, file |-> LockPath, installed |-> TRUE]

\* name@version is in the database
IsInfected(name, version) ==
    /\ DbHas(infectedPackages, name)
    /\ version.t = "string" /\ SetHas(infectedPackages[name], version.s)

RECURSIVE InfectedPackagesFrom(_)
\* one finding for each infected entry of `packages`, from entry i on
InfectedPackagesFrom(i) ==
    IF i > Len(PackagesOfLock) THEN <<>>
    ELSE LET name == AfterLastNodeModules(PackagesOfLock[i][1])
             version == Get(PackagesOfLock[i][2], "version")
         IN  (IF PackagesOfLock[i][1] # "" /\ IsInfected(name, version)
              THEN <<LockedFinding(name, version.s)>> ELSE <<>>)
             \o InfectedPackagesFrom(i + 1)

RECURSIVE InfectedDependencies(_, _)
\* one finding for each infected (name, version) of a `dependencies`
\* mapping, pre-order: an entry, then what is nested in it, then the next
InfectedDependencies(es, i) ==
    IF i > Len(es) THEN <<>>
    ELSE LET version == Get(es[i][2], "version")
             nested == Get(es[i][2], "dependencies")
         IN  (IF IsInfected(es[i][1], version)
              THEN <<LockedFinding(es[i][1], version.s)>> ELSE <<>>)
             \o (IF nested.t = "object" THEN InfectedDependencies(nested.es, 1) ELSE <<>>)
             \o InfectedDependencies(es, i + 1)

\* C22: checkPackageLock checks both shapes: it returns the findings for
\* the infected entries of `packages`, in key order, followed by one
\* finding for every infected (name, version) at any depth of the nested
\* `dependencies`, pre-order; so a package listed in both shapes yields one
\* INFECTED_LOCKED_PACKAGE finding for each shape.
C22_BothShapesChecked ==
    lockPc = "done" =>
        lockReturned = InfectedPackagesFrom(1) \o InfectedDependencies(DependenciesOfLock, 1)

(***************************************************************************)
(* Specification SpecTrees: the two walks of lib/scanner.js over project   *)
(* trees with hidden directories, .github folders, node_modules as a       *)
(* directory and as a regular file, and directories whose names end in     *)
(* .github.                                                                *)
(***************************************************************************)
MaxTreeEntries == 2

Plain(name) == File(name, Unparsable)

TreeItems ==
    { Plain("package.json"),
      Dir(".cache", TRUE, <<Plain("cloud.json"), Plain("package.json")>>),
      Dir(".github", TRUE,
          <<Plain("package.json"),
            Dir("workflows", TRUE, <<Plain("discussion.yaml")>>)>>),
      Plain("node_modules"),
      Dir("node_modules", TRUE,
          <<Plain("package.json"),
            Dir("evil", TRUE, <<Plain("package.json"), Plain("setup_bun.js")>>)>>),
      Dir("src", TRUE,
          <<Dir("node_modules", TRUE, <<Plain("package-lock.json")>>),
            Dir(".hidden", TRUE,
                <<Plain("package-lock.json"), Dir("node_modules", TRUE, <<>>)>>),
            Plain("package-lock.json")>>),
      Dir("my.github", TRUE,
          <<Dir("workflows", TRUE, <<Plain("discussion.yaml"), Plain("discussion.yml")>>)>>),
      Dir("docs", TRUE,
          <<Dir(".github", TRUE, <<Dir("workflows", TRUE, <<Plain("discussion.yml")>>)>>),
            Dir("workflows", TRUE, <<Plain("discussion.yaml")>>)>>) }

\* a directory lists each name once
ProjectTrees ==
    {Dir("", TRUE, es) : es \in {x \in SeqsUpTo(TreeItems, MaxTreeEntries) :
                                    \A i, j \in 1..Len(x) : (i # j) => (x[i].name # x[j].name)}}

\* the directory given to the walk: its own path may go through
\* node_modules and hidden directories
TreeRoots == {"/repo", "/home/dev/.config/node_modules/app"}

TreesInit ==
    /\ tree \in ProjectTrees
    /\ rootPath \in TreeRoots
    /\ artifactWalk = EmptyWalk
    /\ packageWalk = EmptyWalk
    /\ scannerPc = {}
    /\ LoaderIdle /\ FormatsIdle /\ VersionIdle /\ AnalyzerIdle /\ ScanIdle /\ LockIdle /\ WalkIdle /\ SharedIdle

TreesNext == FindMaliciousArtifacts \/ FindPackageFiles

SpecTrees == TreesInit /\ [][TreesNext]_vars

IsHidden(name) == StartsWith(name, ".") /\ name # ".github"

\* every entry of the tree, directory or not, with its path and the names
\* of the directories between the scan root and it
RECURSIVE EntriesUnder(_, _, _)
EntriesUnder(dir, currentDir, between) ==
    UNION { {[node |-> dir.entries[i],
              path |-> PathJoin(currentDir, dir.entries[i].name),
              between |-> between]}
            \cup (IF IsDirectory(dir.entries[i])
                  THEN EntriesUnder(dir.entries[i], PathJoin(currentDir, dir.entries[i].name),
                                    Append(between, dir.entries[i].name))
                  ELSE {})
          : i \in 1..Len(dir.entries) }

TreeEntries == EntriesUnder(tree, rootPath, <<>>)

\* findPackageFiles gets to the entry: no directory between the scan root
\* and it is hidden or named node_modules
PackageWalkMeets(e) ==
    \A k \in 1..Len(e.between) : ~IsHidden(e.between[k]) /\ e.between[k] # "node_modules"

TimesRecorded(path) ==
    Cardinality({j \in 1..Len(packageWalk.results) : packageWalk.results[j].path = path})

\* C23: for every candidate findPackageFiles returns, no path component
\* strictly between the scan root and the candidate is named node_modules
\* or starts with '.' (other than exactly .github), and the candidate's own
\* name does not start with '.'; an entry named node_modules is recorded
\* once and never descended into, so no manifest or lockfile inside it is
\* recorded.
C23_CandidatesOutsideSkipped ==
    "packages" \in scannerPc =>
        /\ \A j \in 1..Len(packageWalk.results) :
              LET names == BelowRoot(packageWalk.results[j].path)
              IN  /\ \A k \in 1..(Len(names) - 1) :
                        names[k] # "node_modules" /\ ~IsHidden(names[k])
                  /\ ~StartsWith(names[Len(names)], ".")
        /\ \A e \in TreeEntries :
              /\ (e.node.name = "node_modules" /\ PackageWalkMeets(e))
                    => TimesRecorded(e.path) = 1
              /\ (\E k \in 1..Len(e.between) : e.between[k] = "node_modules")
                    => TimesRecorded(e.path) = 0

\* node_modules is recorded at the top and inside src, the files inside
\* them and inside the hidden directory are not
C23_Witness ==
    /\ "packages" \in scannerPc
    /\ rootPath = "/home/dev/.config/node_modules/app"
    /\ TimesRecorded(PathJoin(rootPath, "node_modules")) = 1
    /\ TimesRecorded(PathJoin(rootPath, "src/node_modules")) = 1
    /\ TimesRecorded(PathJoin(rootPath, "src/package-lock.json")) = 1
    /\ \E e \in TreeEntries : e.path = PathJoin(rootPath, "node_modules/evil/package.json")
    /\ \E e \in TreeEntries : e.path = PathJoin(rootPath, "src/.hidden/package-lock.json")


\* C24: every candidate findPackageFiles records with type node_modules is
\* a directory; an entry named node_modules that is a regular file is not
\* recorded as a dependency root.
C24_DependencyRootIsDirectory ==
    "packages" \in scannerPc =>
        \A j \in 1..Len(packageWalk.results) :
            packageWalk.results[j].type = "node_modules" =>
                \E e \in TreeEntries :
                    e.path = packageWalk.results[j].path /\ IsDirectory(e.node)

(***************************************************************************)
(* Specification SpecInstalled: checkNodeModules runs once on a            *)
(* node_modules directory that holds up to MaxInstalled entries: packages  *)
(* of the database and others, plain and scoped, whose own package.json is *)
(* infected, of another version, missing or not parsable.                  *)
(***************************************************************************)
MaxInstalled == 3

InstalledDb == loadInfectedPackages(IocText)

InstalledItems ==
    {PackageDir("evil", "evil", st) : st \in PackageStates}
        \cup {Dir("@scope", TRUE, <<PackageDir("pkg", "@scope/pkg", st)>>) :
                 st \in {"infected", "missing", "unparsable"}}
        \cup {Dir("left-pad", TRUE, <<PackageJson("left-pad", "1.0.0")>>),
              File(".package-lock.json", Unparsable)}

\* a directory lists each name once
InstalledSets ==
    {es \in SeqsUpTo(InstalledItems, MaxInstalled) :
        \A i, j \in 1..Len(es) : (i # j) => (es[i].name # es[j].name)}

InstalledPath == "/repo/node_modules"

InstalledInit ==
    /\ tree \in {Dir("node_modules", TRUE, es) : es \in InstalledSets}
    /\ rootPath = InstalledPath
    /\ artifactWalk = EmptyWalk /\ packageWalk = EmptyWalk /\ scannerPc = {}
    /\ infectedPackages = InstalledDb
    /\ verbose \in BOOLEAN
    /\ manifest = Unparsable
    /\ findings = <<>>
    /\ analyzerPc = "start"
    /\ LoaderIdle /\ FormatsIdle /\ VersionIdle /\ ScanIdle /\ LockIdle /\ WalkIdle /\ SharedIdle

CheckNodeModules ==
    /\ analyzerPc = "start"
    /\ LET r == checkNodeModules(rootPath, tree, infectedPackages, [verbose |-> verbose])
       IN  /\ findings' = r.findings
           /\ analyzerPc' = IF r.threw THEN "threw" ELSE "done"
    /\ UNCHANGED <<manifest, infectedPackages, verbose, loaderVars, formatsVars, versionVars,
                   scannerVars, scanVars, lockVars, walkVars, sharedVars>>

InstalledNext == CheckNodeModules

SpecInstalled == InstalledInit /\ [][InstalledNext]_vars

\* the package directories of the node_modules directory, in order
PackagesHere ==
    UNION { LET c == tree.entries[i]
                cPath == PathJoin(rootPath, c.name)
            IN  IF ~IsDirectory(c) THEN {}
                ELSE IF StartsWith(c.name, "@")
                THEN {[name |-> c.name \o "/" \o c.entries[j].name,
                       path |-> PathJoin(cPath, c.entries[j].name), node |-> c.entries[j]] :
                         j \in {k \in 1..Len(c.entries) : IsDirectory(c.entries[k])}}
                ELSE {[name |-> c.name, path |-> cPath, node |-> c]}
          : i \in 1..Len(tree.entries) }

Listed(p) == DbHas(infectedPackages, p.name)

ManifestMissing(p) == ChildNamed(p.node, "package.json").type = "none"

ManifestUnparsable(p) ==
    LET e == ChildNamed(p.node, "package.json")
    IN  e.type = "file" /\ ~e.text.parses

\* the findings that speak of the package directory or of a file in it
FindingsAbout(p) ==
    SelectSeq(findings,
              LAMBDA f : LocationOf(f) = p.path \/ StartsWith(LocationOf(f), p.path \o "/"))

\* every package with an infected version in its own package.json is reported
OthersChecked ==
    \A p \in PackagesHere :
        InfectedIn(infectedPackages, p) =>
            \E f \in Range(FindingsAbout(p)) :
                /\ f.type = "INSTALLED_INFECTED_PACKAGE" /\ f.package = p.name

\* C25 as stated: an IOC-listed package directory whose own package.json is
\* missing or unparsable is silently skipped: no finding of any type is
\* added for it, whatever the options, and the remaining package
\* directories are still checked.
C25_BrokenManifestSilent ==
    analyzerPc # "start" =>
        /\ analyzerPc = "done"
        /\ \A p \in PackagesHere :
              (Listed(p) /\ (ManifestMissing(p) \/ ManifestUnparsable(p)))
                  => FindingsAbout(p) = <<>>
        /\ OthersChecked

\* C25 amended: with a missing package.json no finding is added, whatever
\* the options; with an unparsable one no finding is added unless verbose
\* is set, and then exactly one PARSE_ERROR finding of severity INFO with
\* the path of that package.json; the remaining package directories are
\* still checked.
C25_BrokenManifestSkipped ==
    analyzerPc # "start" =>
        /\ analyzerPc = "done"
        /\ \A p \in PackagesHere :
              /\ (Listed(p) /\ ManifestMissing(p)) => FindingsAbout(p) = <<>>
              /\ (Listed(p) /\ ManifestUnparsable(p)) =>
                    FindingsAbout(p) =
                        IF verbose
                        THEN <<[type |-> "PARSE_ERROR", severity |-> "INFO",
                                path |-> PathJoin(p.path, "package.json"),
                                message |-> "Failed to parse"]>>
                        ELSE <<>>
        /\ OthersChecked

\* verbose: a listed package whose package.json does not parse, then an
\* infected one, which is reported after the PARSE_ERROR of the first
C25_Witness ==
    /\ analyzerPc = "done" /\ verbose
    /\ \E p \in PackagesHere : Listed(p) /\ ManifestUnparsable(p) /\ p.node = tree.entries[1]
    /\ \E p \in PackagesHere : InfectedIn(infectedPackages, p)
    /\ Len(findings) = 2
    /\ findings[1].type = "PARSE_ERROR"
    /\ findings[2].type = "INSTALLED_INFECTED_PACKAGE"

(***************************************************************************)
(* Specification SpecScripts: checkPackageJson on one package.json whose   *)
(* `scripts` section holds up to MaxScripts scripts, lifecycle scripts and *)
(* others, with texts that contain none, one or several of the patterns.   *)
(***************************************************************************)
MaxScripts == 2

ScriptNames == {"preinstall", "postinstall", "prepare", "install", "test"}

ScriptTexts ==
    {"node index.js", "node setup_bun.js", "curl u | bun", "wget u", "evaluate",
     "BUN Curl EVAL"}

\* a JSON object holds each key once
ScriptSections ==
    {scr \in SeqsUpTo({<<n, JStr(t)>> : n \in ScriptNames, t \in ScriptTexts}, MaxScripts) :
        \A i, j \in 1..Len(scr) : (i # j) => (scr[i][1] # scr[j][1])}

ScriptsInit ==
    /\ manifest \in {FileText(ManifestOf(<<>>, scr)) : scr \in ScriptSections}
    /\ infectedPackages = InstalledDb
    /\ verbose \in BOOLEAN
    /\ findings = <<>>
    /\ analyzerPc = "start"
    /\ LoaderIdle /\ FormatsIdle /\ VersionIdle /\ ScannerIdle /\ ScanIdle /\ LockIdle /\ WalkIdle /\ SharedIdle

SpecScripts == ScriptsInit /\ [][AnalyzerNext]_vars

\* the scripts of the manifest, as <<name, text>>
ScriptsOf == ObjectEntries(Get(manifest.json, "scripts"))

\* the positions of the SUSPICIOUS_SCRIPT findings for the script called n
ScriptFindings(n) ==
    {j \in 1..Len(findings) : findings[j].type = "SUSPICIOUS_SCRIPT" /\ findings[j].script = n}

HasPattern(text) ==
    \E p \in {"bun", "setup_", "curl", "wget", "eval"} : Includes(text, p)

\* C26: for each of the lifecycle script names preinstall, postinstall and
\* prepare present in the manifest's scripts, checkPackageJson emits a
\* SUSPICIOUS_SCRIPT finding of severity WARNING if and only if the script
\* text contains at least one of bun, setup_, curl, wget, eval; at most one
\* finding per script name however many substrings match, and none for any
\* other script name.
C26_LifecycleScriptsFlagged ==
    analyzerPc # "start" =>
        /\ analyzerPc = "done"
        /\ \A i \in 1..Len(ScriptsOf) :
              LET n == ScriptsOf[i][1]
                  text == ScriptsOf[i][2].s
              IN  IF n \in {"preinstall", "postinstall", "prepare"} /\ HasPattern(text)
                  THEN /\ Cardinality(ScriptFindings(n)) = 1
                       /\ \A j \in ScriptFindings(n) :
                             /\ findings[j].severity = "WARNING"
                             /\ findings[j].content = text
                  ELSE ScriptFindings(n) = {}
        /\ \A j \in 1..Len(findings) :
              /\ findings[j].type = "SUSPICIOUS_SCRIPT"
              /\ \E i \in 1..Len(ScriptsOf) : ScriptsOf[i][1] = findings[j].script

\* a lifecycle script with two of the substrings gives one finding, next to
\* a script of another name with a substring, which gives none
C26_Witness ==
    /\ analyzerPc = "done"
    /\ \E i, k \in 1..Len(ScriptsOf) :
          /\ ScriptsOf[i] = <<"prepare", JStr("curl u | bun")>>
          /\ ScriptsOf[k] = <<"install", JStr("wget u")>>
    /\ Len(findings) = 1
    /\ findings[1].script = "prepare"

(***************************************************************************)
(* C27 (SpecLoader)                                                        *)
(***************************************************************************)
\* inTable when the loop reaches line i
InTableAt(i) == \E j \in 1..(i - 1) : IsHeaderOrSeparator(WormLines[j])

\* the line's first two tab-separated fields, trimmed, are in the database
\* when both are non-empty
TabFieldsLoaded(line) ==
    \A fields \in {Split(Trim(line), "\t")} :
        (Len(fields) >= 2 /\ Trim(fields[1]) # "" /\ Trim(fields[2]) # "")
            => /\ DbHas(packages, Trim(fields[1]))
               /\ SetHas(packages[Trim(fields[1])], Trim(fields[2]))

\* C27 as stated: every line that contains a tab character, whether or not
\* table mode is active, is split on tabs and its first two trimmed fields
\* are added to the database as (name, version) when both are non-empty.
C27_EveryTabLineSplit ==
    loaderPc = "done" =>
        \A i \in 1..Len(WormLines) :
            Includes(WormLines[i], "\t") => TabFieldsLoaded(WormLines[i])

\* C27 amended: every line that contains a tab character, is not a header
\* or separator line and does not, in table mode, start with a pipe, is
\* trimmed and split on tabs, whether or not table mode is active, and its
\* first two trimmed fields are added to the database as (name, version)
\* when both are non-empty.
C27_TabLinesOutsideRowsSplit ==
    loaderPc = "done" =>
        \A i \in 1..Len(WormLines) :
            (/\ Includes(WormLines[i], "\t")
             /\ ~IsHeaderOrSeparator(WormLines[i])
             /\ ~(InTableAt(i) /\ StartsWith(WormLines[i], "|")))
                => TabFieldsLoaded(WormLines[i])

\* in table mode, a tab-separated line with a leading tab is loaded
C27_Witness ==
    /\ loaderPc = "done"
    /\ Len(WormLines) = 3
    /\ IsHeaderOrSeparator(WormLines[1])
    /\ WormLines[2] = "| bad-package | 1.0.0 | offline |"
    /\ WormLines[3] = "\tlead-pkg\t6.0.0"
    /\ DbHas(packages, "lead-pkg") /\ packages["lead-pkg"] = <<"6.0.0">>

(***************************************************************************)
(* C28 (SpecScan)                                                          *)
(***************************************************************************)
RECURSIVE Within(_, _)
\* the elements of `short` are in `long`, in the same order
Within(short, long) ==
    IF short = <<>> THEN TRUE
    ELSE IF long = <<>> THEN FALSE
    ELSE IF Head(short) = Head(long) THEN Within(Tail(short), Tail(long))
    ELSE Within(short, Tail(long))

\* the same scan with the verbose option the other way
ScanOtherVerbosity ==
    scan(wormMd, directories, [scanOptions EXCEPT !.verbose = ~scanOptions.verbose], host)

ReportedAt(path) ==
    {j \in 1..Len(artifactWalk.results) : artifactWalk.results[j].path = path}

\* a directory named node_modules lies between the scan root and the entry,
\* or the entry itself is named so
InsideDependencies(e) ==
    e.node.name = "node_modules" \/ \E k \in 1..Len(e.between) : e.between[k] = "node_modules"

InsideHidden(e) == \E k \in 1..Len(e.between) : IsHidden(e.between[k])

\* C29: findMaliciousArtifacts does not apply the hidden-entry skip of
\* findPackageFiles: it descends into every directory not named
\* node_modules, so a file matching an artifact rule inside a hidden
\* directory other than .github is reported, while a package.json in that
\* same directory is not recorded by findPackageFiles.
C29_HiddenWalkedForArtifacts ==
    scannerPc = {"artifacts", "packages"} =>
        \A e \in TreeEntries :
            /\ (/\ ~IsDirectory(e.node)
                /\ e.node.name \in BasenameRules
                /\ ~InsideDependencies(e))
                  => \E j \in ReportedAt(e.path) :
                        artifactWalk.results[j].artifact = e.node.name
            /\ InsideHidden(e) => TimesRecorded(e.path) = 0

\* .cache/cloud.json is reported, .cache/package.json is not recorded
C29_Witness ==
    /\ scannerPc = {"artifacts", "packages"}
    /\ \E e \in TreeEntries :
          /\ e.path = PathJoin(rootPath, ".cache/package.json")
          /\ TimesRecorded(e.path) = 0
    /\ ReportedAt(PathJoin(rootPath, ".cache/cloud.json")) # {}
    /\ TimesRecorded(PathJoin(rootPath, "package.json")) = 1


=============================================================================
